---- MODULE Spec2Model ----
(***************************************************************************)
(* State-machine model of the electrum window-management core:             *)
(*   shell/workspace.rs   fullscreen slots, policy channel                 *)
(*   shell/mod.rs         output list, refresh                             *)
(*   shell/layout/mod.rs  floating layout: map / unmap / unmaximize        *)
(*   shell/grab.rs        move grab and its deferred finalize              *)
(*   input/mod.rs         device registry, pointer events, surface_under   *)
(*   state/output.rs      active output of a seat                          *)
(*                                                                         *)
(* Conventions.  Option<T> is a sequence of length 0 or 1.  Integer        *)
(* (i32, Logical) points and sizes are pairs <<x, y>>.  Pointer positions  *)
(* (f64) are pairs counted in HALF logical units, so that to_i32_round     *)
(* really rounds.                                                          *)
(***************************************************************************)
EXTENDS Integers, Sequences, FiniteSets, TLC

\* ----------------------------------------------------------------- bounds
MaxIdle == 2      \* idle tasks that may be queued at once
MaxChan == 2      \* policy-channel messages that may be in flight at once
MaxPtr  == 5      \* pointer coordinates explored: 0..MaxPtr logical units

\* ------------------------------------------------------------ the universe
Windows == {"w1", "w2"}
Outputs == {"o1", "o2"}           \* an output is identified by its name
Buttons == {"left", "right"}

None      == <<>>
Some(x)   == <<x>>
IsSome(o) == o # <<>>
Get(o)    == o[1]

Min(a, b) == IF a < b THEN a ELSE b
Max(a, b) == IF a > b THEN a ELSE b

Add(p, q) == <<p[1] + q[1], p[2] + q[2]>>
Sub(p, q) == <<p[1] - q[1], p[2] - q[2]>>

\* f64 <-> i32 conversions on half-unit values
ToF64Axis(n) == 2 * n
RoundAxis(h) == IF h >= 0 THEN (h + 1) \div 2 ELSE -((1 - h) \div 2)
ToF64(p)      == <<ToF64Axis(p[1]), ToF64Axis(p[2])>>
ToI32Round(p) == <<RoundAxis(p[1]), RoundAxis(p[2])>>

\* Rectangle::contains on an i32 rectangle: loc <= p < loc + size
Contains(r, p) ==
    /\ p[1] >= r.loc[1] /\ p[1] < r.loc[1] + r.size[1]
    /\ p[2] >= r.loc[2] /\ p[2] < r.loc[2] + r.size[2]

\* Rectangle::overlaps
Overlaps(a, b) ==
    /\ a.loc[1] < b.loc[1] + b.size[1] /\ b.loc[1] < a.loc[1] + a.size[1]
    /\ a.loc[2] < b.loc[2] + b.size[2] /\ b.loc[2] < a.loc[2] + a.size[2]

\* OutputExt::geometry: current location and the transformed, scaled mode size
OutputGeometry(o) ==
    IF o = "o1" THEN [loc |-> <<0, 0>>, size |-> <<4, 3>>]
                ELSE [loc |-> <<4, 0>>, size |-> <<3, 3>>]

\* layer_map_for_output(output).non_exclusive_zone(): output-local rectangle
\* left over by the exclusive layer surfaces (o2 carries a one-unit top bar)
NonExclusiveZone(o) ==
    IF o = "o1" THEN [loc |-> <<0, 0>>, size |-> <<4, 3>>]
                ELSE [loc |-> <<0, 1>>, size |-> <<3, 2>>]

\* ------------------------------------------------------------------- state
VARIABLES
    outputs,        \* Shell.outputs: Vec<Output>
    space_outputs,  \* outputs mapped into Workspace.space
    space_loc,      \* Workspace.space: window -> Option<location>
    space_stack,    \* Workspace.space: mapped windows, bottom to top
    layer_map,      \* layer_map_for_output: output -> layer surfaces, bottom to top
    pending_layers, \* Shell.pending_layers: Vec<(LayerSurface, Output)>
    fullscreen,     \* Workspace.fullscreen: output name -> Option<Window>
    windows,        \* Layout.windows
    pending_windows,\* Layout.pending_windows
    last_geometry,  \* WindowUserData.last_geometry: window -> Option<Rectangle>
    resize_state,   \* RefCell<ResizeState> user data: window -> variant, or absent
    alive,          \* window -> its client is still connected
    geometry,       \* window.geometry(): committed [loc, size]
    attrs,          \* window -> [min_size, max_size] advertised by the client
    pending,        \* toplevel server state: [states, size: Option]
    current,        \* toplevel states the client has acked and committed
    runtime_sender, \* messages in flight to the policy engine
    ptr,            \* pointer.current_location(), half units
    pressed,        \* pointer.current_pressed()
    grab,           \* Option<[kind, window]>: the pointer grab
    keyboard_grab,  \* KeyboardHandle::is_grabbed() of the seat
    move_state,     \* SeatMoveGrabState: Option<MoveGrabState>
    active,         \* ActiveOutput user data of the seat: Option<Output>
    focus,          \* keyboard focus of the seat: Option<surface>
    pending_focus,  \* focus of the last MotionEvent: Option<[surface, loc]>
    pointer_focus,  \* client surface that owns the pointer: Option<[surface, loc]>
    idle,           \* queued drop_move idle tasks, each with the output it
                    \* captured and (history) the pointer location at its queueing
    devices,        \* Devices of the seat: device id -> Option<capabilities>
    reported,       \* device id -> capabilities the device reports
    registered,     \* history: devices added to the seat and not removed since
    returned,       \* diff returned by the last add_device / remove_device
    last_report,    \* history: capability -> last diff that named it
    crashed,        \* the process has panicked
    op,             \* last handler that ran, with its arguments
    configured,     \* configure events sent by the last handler
    sent            \* policy messages pushed by the last handler

outputVars == <<outputs, space_outputs, layer_map, pending_layers>>
spaceVars  == <<space_loc, space_stack>>
layoutVars == <<windows, pending_windows, last_geometry, resize_state>>
clientVars == <<alive, geometry, attrs, current>>
shellVars  == <<outputVars, spaceVars, layoutVars, clientVars, fullscreen,
                pending, runtime_sender>>
devVars    == <<devices, reported, registered, returned, last_report>>
seatVars   == <<ptr, pressed, grab, move_state, active, focus, pending_focus,
                pointer_focus, idle, devVars, keyboard_grab>>
stepVars   == <<op, configured, sent>>
vars       == <<shellVars, seatVars, crashed, stepVars>>

\* ----------------------------------------------------- small helper views
Range(f) == {f[x] : x \in DOMAIN f}
Perms(S) == {s \in [1..Cardinality(S) -> S] : Range(s) = S}

\* self.fullscreen.values().any(|w| w == window)
IsFullscreen(fs, w) == \E o \in Outputs : fs[o] = Some(w)

Configure(w, st) == [window |-> w, states |-> st.states, size |-> st.size]


\* a grab that takes every window for alive
IsAliveAlways(w) == TRUE

\* `window.alive()` as the grabs and the move finalize test it
IsAlive(w) == alive[w]

\* ======================================================== shell/workspace.rs
\* the guard of fullscreen_request left out
SlotTakenNever(fs, o) == FALSE

\* `self.fullscreen.contains_key(&output.name())`: the only guard of
\* fullscreen_request
SlotTaken(fs, o) == IsSome(fs[o])

\* the size proposed with the Fullscreen flag: output.current_mode() in
\* logical units
FullscreenSize(o) == OutputGeometry(o).size

\* pending state after the with_pending_state closure of fullscreen_request
FullscreenState(st, o) ==
    [states |-> st.states \cup {"Fullscreen"}, size |-> Some(FullscreenSize(o))]

\* pending state after the with_pending_state closure of unfullscreen_request
UnfullscreenState(st) ==
    [states |-> st.states \ {"Fullscreen"}, size |-> None]

\* only one of the slots that hold the window is freed
RetainOthersButOne(fs, w) ==
    LET held == {o \in Outputs : fs[o] = Some(w)}
    IN  [o \in Outputs |->
           IF held # {} /\ o = (CHOOSE x \in held : TRUE) THEN None ELSE fs[o]]

\* `self.fullscreen.retain(|_, w| w != window)`
RetainOthers(fs, w) == [o \in Outputs |-> IF fs[o] = Some(w) THEN None ELSE fs[o]]

Msg(kind, w) == [kind |-> kind, window |-> w]

\* room left on the (unbounded) channel within the explored bound
CanSend(n) == Len(runtime_sender) + n <= MaxChan

\* Workspace::fullscreen_request
fullscreen_request(w, o) ==
    /\ ~crashed
    /\ op' = <<"fullscreen_request", w, o>>
    /\ sent' = <<>>
    /\ IF SlotTaken(fullscreen, o)
       THEN /\ configured' = <<>>
            /\ UNCHANGED <<fullscreen, pending>>
       ELSE /\ pending' = [pending EXCEPT ![w] = FullscreenState(@, o)]
            /\ configured' = <<Configure(w, pending'[w])>>
            /\ fullscreen' = [fullscreen EXCEPT ![o] = Some(w)]
    /\ UNCHANGED <<outputVars, spaceVars, layoutVars, clientVars,
                   runtime_sender, seatVars, crashed>>

\* Workspace::unfullscreen_request
unfullscreen_request(w) ==
    /\ ~crashed
    /\ op' = <<"unfullscreen_request", w>>
    /\ IF IsFullscreen(fullscreen, w)
       THEN /\ CanSend(1)
            /\ pending' = [pending EXCEPT ![w] = UnfullscreenState(@)]
            /\ configured' = <<Configure(w, pending'[w])>>
            /\ sent' = <<Msg("UnfullscreenRequest", w)>>
            /\ runtime_sender' = runtime_sender \o sent'
            /\ fullscreen' = RetainOthers(fullscreen, w)
       ELSE /\ configured' = <<>>
            /\ sent' = <<>>
            /\ UNCHANGED <<fullscreen, pending, runtime_sender>>
    /\ UNCHANGED <<outputVars, spaceVars, layoutVars, clientVars,
                   seatVars, crashed>>

\* Workspace::maximize_request
maximize_request(w, o) ==
    /\ ~crashed
    /\ op' = <<"maximize_request", w, o>>
    /\ configured' = <<>>
    /\ IF IsFullscreen(fullscreen, w)
       THEN /\ sent' = <<>>
            /\ UNCHANGED runtime_sender
       ELSE /\ CanSend(1)
            /\ sent' = <<[kind |-> "MaximizeRequest", window |-> w, output |-> o]>>
            /\ runtime_sender' = runtime_sender \o sent'
    /\ UNCHANGED <<outputVars, spaceVars, layoutVars, clientVars, fullscreen,
                   pending, seatVars, crashed>>

\* Workspace::unmaximize_request
unmaximize_request(w) ==
    /\ ~crashed
    /\ op' = <<"unmaximize_request", w>>
    /\ IF IsFullscreen(fullscreen, w)
       THEN /\ CanSend(1)
            /\ pending' = [pending EXCEPT ![w] = UnfullscreenState(@)]
            /\ configured' = <<Configure(w, pending'[w])>>
            /\ sent' = <<Msg("UnfullscreenRequest", w)>>
            /\ runtime_sender' = runtime_sender \o sent'
            /\ fullscreen' = RetainOthers(fullscreen, w)
       ELSE /\ CanSend(1)
            /\ configured' = <<>>
            /\ sent' = <<Msg("UnmaximizeRequest", w)>>
            /\ runtime_sender' = runtime_sender \o sent'
            /\ UNCHANGED <<fullscreen, pending>>
    /\ UNCHANGED <<outputVars, spaceVars, layoutVars, clientVars,
                   seatVars, crashed>>

\* Workspace::resize_request
resize_request(w, edges) ==
    /\ ~crashed
    /\ op' = <<"resize_request", w>>
    /\ configured' = <<>>
    /\ IF IsFullscreen(fullscreen, w)
       THEN /\ sent' = <<>>
            /\ UNCHANGED runtime_sender
       ELSE /\ CanSend(1)
            /\ sent' = <<[kind |-> "ResizeRequest", window |-> w,
                          start_data |-> ptr, edges |-> edges]>>
            /\ runtime_sender' = runtime_sender \o sent'
    /\ UNCHANGED <<outputVars, spaceVars, layoutVars, clientVars, fullscreen,
                   pending, seatVars, crashed>>

\* the slots Workspace::refresh force-unfullscreens: those whose output name
\* matches no output of the space
StaleSlots(fs, outs) == {o \in Outputs : IsSome(fs[o]) /\ o \notin outs}

\* `self.fullscreen.retain(|_, w| w.alive())`
RetainAlive(fs) ==
    [o \in Outputs |-> IF IsSome(fs[o]) /\ ~alive[Get(fs[o])] THEN None ELSE fs[o]]

\* Space::refresh drops the windows whose toplevel is dead
SpaceRefreshLoc(loc) == [w \in Windows |-> IF alive[w] THEN loc[w] ELSE None]
SpaceRefreshStack(st) == SelectSeq(st, LAMBDA w : alive[w])

\* Shell::refresh, that is Workspace::refresh (the HashMap iteration order of
\* the stale slots is not fixed: every order of the windows is possible)
refresh ==
    /\ ~crashed
    /\ op' = <<"refresh">>
    /\ LET stale == {Get(fullscreen[o]) : o \in StaleSlots(fullscreen, space_outputs)}
       IN  /\ CanSend(Cardinality(stale))
           /\ \E order \in Perms(stale) :
                /\ sent' = [i \in DOMAIN order |-> Msg("UnfullscreenRequest", order[i])]
                /\ pending' = [w \in Windows |->
                                 IF w \in stale THEN UnfullscreenState(pending[w])
                                                ELSE pending[w]]
                /\ configured' = [i \in DOMAIN order |->
                                    Configure(order[i], pending'[order[i]])]
           /\ runtime_sender' = runtime_sender \o sent'
           /\ fullscreen' = RetainAlive(
                 [o \in Outputs |->
                    IF IsSome(fullscreen[o]) /\ Get(fullscreen[o]) \in stale
                    THEN None ELSE fullscreen[o]])
    /\ space_loc' = SpaceRefreshLoc(space_loc)
    /\ space_stack' = SpaceRefreshStack(space_stack)
    /\ UNCHANGED <<outputVars, layoutVars, clientVars, seatVars, crashed>>

\* Workspace::get_fullscreen
get_fullscreen(o) ==
    IF o \notin space_outputs THEN None
    ELSE IF IsSome(fullscreen[o]) /\ alive[Get(fullscreen[o])] THEN fullscreen[o]
    ELSE None

\* ============================================================== shell/mod.rs
\* remap_output(output, spaces, old, new, pos) on the set of outputs of the
\* one workspace's space: unmap from `old` when given, map into `new` when given
remap_output(o, outs, old, new) ==
    LET unmapped == IF IsSome(old) THEN outs \ {o} ELSE outs
    IN  IF IsSome(new) THEN unmapped \cup {o} ELSE unmapped

\* Shell::add_output
add_output(o) ==
    /\ ~crashed
    /\ o \notin Range(outputs)
    /\ op' = <<"add_output", o>>
    /\ outputs' = Append(outputs, o)
    /\ space_outputs' = remap_output(o, space_outputs, None, Some(0))
    /\ configured' = <<>> /\ sent' = <<>>
    /\ UNCHANGED <<layer_map, pending_layers, spaceVars, layoutVars, clientVars, fullscreen,
                   pending, runtime_sender, seatVars, crashed>>

\* Shell::remove_output
remove_output(o) ==
    /\ ~crashed
    /\ o \in Range(outputs)
    /\ op' = <<"remove_output", o>>
    /\ outputs' = SelectSeq(outputs, LAMBDA x : x # o)
    /\ space_outputs' = remap_output(o, space_outputs, None, None)
    /\ configured' = <<>> /\ sent' = <<>>
    /\ UNCHANGED <<layer_map, pending_layers, spaceVars, layoutVars, clientVars, fullscreen,
                   pending, runtime_sender, seatVars, crashed>>

\* Shell::refresh_outputs
refresh_outputs ==
    /\ ~crashed
    /\ op' = <<"refresh_outputs">>
    /\ space_outputs' = space_outputs \cup Range(outputs)
    /\ configured' = <<>> /\ sent' = <<>>
    /\ UNCHANGED <<outputs, layer_map, pending_layers, spaceVars, layoutVars, clientVars,
                   fullscreen, pending, runtime_sender, seatVars, crashed>>

\* ======================================================= shell/layout/mod.rs
\* Rectangle<i32>::to_f64().contains(point) for a point in half units
ContainsF(r, hp) ==
    /\ hp[1] >= ToF64Axis(r.loc[1]) /\ hp[1] < ToF64Axis(r.loc[1] + r.size[1])
    /\ hp[2] >= ToF64Axis(r.loc[2]) /\ hp[2] < ToF64Axis(r.loc[2] + r.size[2])

\* Space::output_under(point): the outputs of the space whose geometry
\* contains the point
OutputUnder(hp) == {o \in space_outputs : ContainsF(OutputGeometry(o), hp)}

\* output_from_seat for a seat that owns a pointer: the cached ActiveOutput,
\* else `space.output_under(ptr.current_location()).next().unwrap()`, which
\* panics when the pointer is over no output
output_from_seat ==
    IF IsSome(active) THEN [panic |-> FALSE, output |-> active]
    ELSE IF OutputUnder(ptr) = {} THEN [panic |-> TRUE, output |-> None]
    ELSE [panic |-> FALSE, output |-> Some(CHOOSE o \in OutputUnder(ptr) : TRUE)]

\* `n / 3 * 2` in i32 arithmetic
TwoThirds(n) == (n \div 3) * 2

\* the "more reasonable size" of one axis (lines 84-94 and 99-109)
ReasonableAxis(zone, mn, mx) ==
    LET a == TwoThirds(zone)
        b == IF mx # 0 THEN Min(mx, a) ELSE a
        c == IF mn # 0 THEN Max(mn, b) ELSE b
    IN  Min(c, zone)

PlacedAxis(v, zone, mn, mx) ==
    IF v > TwoThirds(zone) THEN ReasonableAxis(zone, mn, mx) ELSE v

\* win_geo.size after line 71: the persisted size when there is one
BaselineSize(w) ==
    IF IsSome(last_geometry[w]) THEN Get(last_geometry[w]).size
    ELSE geometry[w].size

\* win_geo.size after the clamp of lines 72-112
PlacedSize(w, o) ==
    LET zone == NonExclusiveZone(o).size
        base == BaselineSize(w)
    IN  <<PlacedAxis(base[1], zone[1], attrs[w].min_size[1], attrs[w].max_size[1]),
          PlacedAxis(base[2], zone[2], attrs[w].min_size[2], attrs[w].max_size[2])>>

\* geo_updated at line 131: set when the persisted size EQUALS the current
\* size (line 69), or when either axis was clamped
GeoUpdated(w, o) ==
    LET zone == NonExclusiveZone(o).size
        base == BaselineSize(w)
    IN  \/ IsSome(last_geometry[w]) /\ geometry[w].size = Get(last_geometry[w]).size
        \/ base[1] > TwoThirds(zone[1])
        \/ base[2] > TwoThirds(zone[2])

\* position of lines 114-122
PlacedPosition(w, o, position) ==
    LET zone == NonExclusiveZone(o)
        size == PlacedSize(w, o)
    IN  IF IsSome(position) THEN Get(position)
        ELSE IF IsSome(last_geometry[w]) THEN Get(last_geometry[w]).loc
        ELSE <<zone.loc[1] + (zone.size[1] \div 2) - (size[1] \div 2) + geometry[w].loc[1],
               zone.loc[2] + (zone.size[2] \div 2) - (size[2] \div 2) + geometry[w].loc[2]>>

TiledStates == {"TiledLeft", "TiledRight", "TiledTop", "TiledBottom"}

\* pending state after the with_pending_state closure of lines 126-134
MappedState(w, o) ==
    [states |-> pending[w].states \ TiledStates,
     size   |-> IF GeoUpdated(w, o) THEN Some(PlacedSize(w, o)) ELSE pending[w].size]

\* Space::map_window / Space::unmap_window on the stack of the space
SpaceMap(stack, w)   == Append(SelectSeq(stack, LAMBDA x : x # w), w)
SpaceUnmap(stack, w) == SelectSeq(stack, LAMBDA x : x # w)

\* Layout::map_window_internal: what it writes
map_window_internal(w, o, position) ==
    /\ pending' = [pending EXCEPT ![w] = MappedState(w, o)]
    /\ configured' = <<Configure(w, pending'[w])>>
    /\ space_loc' = [space_loc EXCEPT ![w] = Some(PlacedPosition(w, o, position))]
    /\ space_stack' = SpaceMap(space_stack, w)
    /\ windows' = windows \cup {w}
    /\ UNCHANGED <<pending_windows, last_geometry, resize_state, crashed>>

\* Layout::map_window
layout_map_window(w, position) ==
    IF output_from_seat.panic
    THEN /\ crashed' = TRUE
         /\ configured' = <<>>
         /\ UNCHANGED <<pending, spaceVars, layoutVars>>
    ELSE IF IsSome(output_from_seat.output)
    THEN map_window_internal(w, Get(output_from_seat.output), position)
    ELSE /\ pending_windows' = Append(pending_windows, w)
         /\ configured' = <<>>
         /\ UNCHANGED <<pending, spaceVars, windows, last_geometry, resize_state,
                        crashed>>

\* entry point: a client (or the policy engine) maps a window
map_window(w, position) ==
    /\ ~crashed
    /\ alive[w]
    /\ op' = <<"map_window", w, position>>
    /\ sent' = <<>>
    /\ layout_map_window(w, position)
    /\ UNCHANGED <<outputVars, clientVars, fullscreen, runtime_sender, seatVars>>

\* last_geometry after lines 144-161 of Layout::unmap_window, on the given
\* pending states and space locations
PersistOnUnmap(w, pend, loc, lg) ==
    IF "Maximized" \notin pend[w].states /\ IsSome(loc[w])
    THEN [lg EXCEPT ![w] = Some([loc |-> Get(loc[w]), size |-> geometry[w].size])]
    ELSE lg

\* entry point: Layout::unmap_window
unmap_window(w) ==
    /\ ~crashed
    /\ op' = <<"unmap_window", w, space_loc[w]>>
    /\ configured' = <<>> /\ sent' = <<>>
    /\ last_geometry' = PersistOnUnmap(w, pending, space_loc, last_geometry)
    /\ space_loc' = [space_loc EXCEPT ![w] = None]
    /\ space_stack' = SpaceUnmap(space_stack, w)
    /\ pending_windows' = SelectSeq(pending_windows, LAMBDA x : x # w)
    /\ windows' = windows \ {w}
    /\ UNCHANGED <<outputVars, clientVars, fullscreen, pending, runtime_sender,
                   resize_state, seatVars, crashed>>

\* pending state after the closure of Layout::unmaximize_request
UnmaximizedState(w, st) ==
    [states |-> st.states \ {"Maximized"},
     size   |-> IF IsSome(last_geometry[w]) THEN Some(Get(last_geometry[w]).size)
                ELSE None]

\* space location after Layout::unmaximize_request (lines 182-184)
UnmaximizedLoc(w, loc) ==
    IF IsSome(last_geometry[w])
    THEN [loc EXCEPT ![w] = Some(Get(last_geometry[w]).loc)]
    ELSE loc

\* ============================================================ state/output.rs
\* active_output: the cached output, else the first of Shell.outputs, else
\* `expect("Backend has no outputs?")`
active_output ==
    IF IsSome(active) THEN [panic |-> FALSE, output |-> Get(active)]
    ELSE IF Len(outputs) > 0 THEN [panic |-> FALSE, output |-> outputs[1]]
    ELSE [panic |-> TRUE, output |-> "none"]

\* ===================================== state/layer_shell.rs and shell/mod.rs
\* the layer surfaces clients may create: band, arranged geometry (local to
\* the output), input region (local to the surface), keyboard interactivity
LayerIds == {"l1", "l2", "l3"}

LayerSurface(l) ==
    IF l = "l1"
    THEN [id |-> l, layer |-> "Overlay", keyboard |-> FALSE,
          geo    |-> [loc |-> <<1, 0>>, size |-> <<2, 2>>],
          region |-> [loc |-> <<0, 0>>, size |-> <<1, 2>>]]
    ELSE IF l = "l2"
    THEN [id |-> l, layer |-> "Top", keyboard |-> TRUE,
          geo    |-> [loc |-> <<0, 0>>, size |-> <<3, 1>>],
          region |-> [loc |-> <<0, 0>>, size |-> <<3, 1>>]]
    ELSE [id |-> l, layer |-> "Bottom", keyboard |-> TRUE,
          geo    |-> [loc |-> <<0, 2>>, size |-> <<3, 1>>],
          region |-> [loc |-> <<0, 0>>, size |-> <<3, 1>>]]

\* the layer surfaces that exist: pending or mapped on some output
LayersKnown ==
    {pending_layers[i].layer : i \in DOMAIN pending_layers}
        \cup UNION {{layer_map[o][i].id : i \in DOMAIN layer_map[o]} : o \in Outputs}

\* WlrLayerShellHandler::new_layer_surface: the surface waits in
\* pending_layers with the output the client named, else the active output
new_layer_surface(l, output) ==
    /\ ~crashed
    /\ l \notin LayersKnown
    /\ op' = <<"new_layer_surface", l>>
    /\ configured' = <<>> /\ sent' = <<>>
    /\ IF IsSome(output)
       THEN /\ pending_layers' = Append(pending_layers,
                                        [layer |-> l, output |-> Get(output)])
            /\ UNCHANGED crashed
       ELSE IF active_output.panic
       THEN /\ crashed' = TRUE
            /\ UNCHANGED pending_layers
       ELSE /\ pending_layers' = Append(pending_layers,
                                        [layer |-> l, output |-> active_output.output])
            /\ UNCHANGED crashed
    /\ UNCHANGED <<outputs, space_outputs, layer_map, spaceVars, layoutVars,
                   clientVars, fullscreen, pending, runtime_sender, seatVars>>

\* wants_focus of Shell::map_layer (lines 122-128)
WantsFocus(l) ==
    LayerSurface(l).layer \in {"Top", "Overlay"} /\ LayerSurface(l).keyboard

\* Shell::map_layer for a surface that waits in pending_layers
map_layer(l) ==
    /\ ~crashed
    /\ \E i \in DOMAIN pending_layers :
          /\ pending_layers[i].layer = l
          /\ pending_layers' = SelectSeq(pending_layers, LAMBDA x : x.layer # l)
          /\ layer_map' = [layer_map EXCEPT ![pending_layers[i].output] =
                              Append(@, LayerSurface(l))]
    /\ op' = <<"map_layer", l>>
    /\ configured' = <<>> /\ sent' = <<>>
    /\ focus' = IF WantsFocus(l) THEN Some(l) ELSE focus
    /\ UNCHANGED <<outputs, space_outputs, spaceVars, layoutVars, clientVars,
                   fullscreen, pending, runtime_sender, ptr, pressed, grab,
                   move_state, active, pending_focus, pointer_focus, idle,
                   devVars, keyboard_grab, crashed>>

\* ============================================== input/mod.rs: hit testing
Bands == {"Background", "Bottom", "Top", "Overlay"}

SubF(hp, p) == <<hp[1] - ToF64Axis(p[1]), hp[2] - ToF64Axis(p[2])>>

\* Shell::space_relative_output_geometry
space_relative_output_geometry(hp, o) == SubF(hp, OutputGeometry(o).loc)

\* LayerMap::layer_under(band, point): the topmost layer surface of the band
\* whose geometry contains the point
LayerUnder(o, band, hp) ==
    LET ls  == layer_map[o]
        hit == {i \in DOMAIN ls : ls[i].layer = band /\ ContainsF(ls[i].geo, hp)}
    IN  IF hit = {} THEN None
        ELSE Some(ls[CHOOSE i \in hit : \A j \in hit : j <= i])

OrElse(a, b) == IF IsSome(a) THEN a ELSE b

\* LayerSurface::surface_under(point, ALL): the surface of the layer at a
\* layer-local point, when its input region holds the point
LayerSurfaceUnder(l, hp) ==
    IF ContainsF(l.region, hp) THEN Some([surface |-> l.id, loc |-> <<0, 0>>])
    ELSE None

\* Window::surface_under(point, ALL) at a window-local point
WindowSurfaceUnder(w, hp) ==
    IF ContainsF([loc |-> <<0, 0>>, size |-> geometry[w].size], hp)
    THEN Some([surface |-> w, loc |-> <<0, 0>>])
    ELSE None

\* Space::surface_under(point, ALL): topmost mapped window under the point
SpaceSurfaceUnder(hp) ==
    LET hit == {i \in DOMAIN space_stack :
                  LET w == space_stack[i]
                  IN  /\ IsSome(space_loc[w])
                      /\ IsSome(WindowSurfaceUnder(w, SubF(hp, Get(space_loc[w]))))}
    IN  IF hit = {} THEN None
        ELSE LET w == space_stack[CHOOSE i \in hit : \A j \in hit : j <= i]
             IN  Some([surface |-> w, loc |-> Get(space_loc[w])])

\* `.map(|(s, loc)| (s, loc + off))`
Offset(r, off) ==
    IF IsSome(r) THEN Some([surface |-> Get(r).surface, loc |-> Add(Get(r).loc, off)])
    ELSE None

\* a hit on a layer surface (lines 428-434, 445-451, 461-467)
LayerHit(l, global_pos, output_geo) ==
    Offset(LayerSurfaceUnder(l, SubF(SubF(global_pos, output_geo.loc), l.geo.loc)),
           Add(l.geo.loc, output_geo.loc))

\* the fullscreen window tried before the layers above it
surface_under_window_first(global_pos, relative_pos, o, output_geo) ==
    LET upper == OrElse(LayerUnder(o, "Overlay", relative_pos),
                        LayerUnder(o, "Top", relative_pos))
        fs    == get_fullscreen(o)
        hit   == IF IsSome(fs)
                 THEN Offset(WindowSurfaceUnder(Get(fs), SubF(global_pos, output_geo.loc)),
                             output_geo.loc)
                 ELSE Offset(SpaceSurfaceUnder(relative_pos),
                             ToI32Round(Sub(global_pos, relative_pos)))
    IN  IF IsSome(hit) THEN hit
        ELSE IF IsSome(upper) THEN LayerHit(Get(upper), global_pos, output_geo)
        ELSE None

\* State::surface_under
surface_under(global_pos, relative_pos, o, output_geo) ==
    LET upper == OrElse(LayerUnder(o, "Overlay", relative_pos),
                        LayerUnder(o, "Top", relative_pos))
        lower == OrElse(LayerUnder(o, "Bottom", relative_pos),
                        LayerUnder(o, "Background", relative_pos))
        fs    == get_fullscreen(o)
    IN  IF IsSome(fs)
        THEN IF IsSome(upper) THEN LayerHit(Get(upper), global_pos, output_geo)
             ELSE Offset(WindowSurfaceUnder(Get(fs), SubF(global_pos, output_geo.loc)),
                         output_geo.loc)
        ELSE IF IsSome(upper) THEN LayerHit(Get(upper), global_pos, output_geo)
        ELSE IF IsSome(SpaceSurfaceUnder(relative_pos))
             THEN Offset(SpaceSurfaceUnder(relative_pos),
                         ToI32Round(Sub(global_pos, relative_pos)))
        ELSE IF IsSome(lower) THEN LayerHit(Get(lower), global_pos, output_geo)
        ELSE None

\* the surface a focus-capable layer yields (lines 263-273, 291-301, 312-322)
FocusLayerHit(l, pos, output_geo) ==
    IF l.keyboard
    THEN IF IsSome(LayerSurfaceUnder(l, SubF(SubF(pos, output_geo.loc), l.geo.loc)))
         THEN Some(l.id) ELSE None
    ELSE None

\* `under` of the PointerButton handler (lines 257-324)
focus_under(pos, relative_pos, o, output_geo) ==
    LET fs == get_fullscreen(o)
    IN  IF IsSome(fs)
        THEN IF IsSome(LayerUnder(o, "Overlay", relative_pos))
             THEN FocusLayerHit(Get(LayerUnder(o, "Overlay", relative_pos)), pos, output_geo)
             ELSE IF IsSome(WindowSurfaceUnder(Get(fs), SubF(pos, output_geo.loc)))
                  THEN fs ELSE None
        ELSE LET upper == OrElse(LayerUnder(o, "Overlay", relative_pos),
                                 LayerUnder(o, "Top", relative_pos))
                 lower == OrElse(LayerUnder(o, "Bottom", pos),
                                 LayerUnder(o, "Background", pos))
             IN  IF IsSome(upper) THEN FocusLayerHit(Get(upper), pos, output_geo)
                 ELSE IF IsSome(SpaceSurfaceUnder(relative_pos))
                      THEN Some(Get(SpaceSurfaceUnder(relative_pos)).surface)
                 ELSE IF IsSome(lower) THEN FocusLayerHit(Get(lower), pos, output_geo)
                 ELSE None

\* ================================================= the pointer of the seat
\* (smithay PointerHandle, driven from input/mod.rs and shell/grab.rs)
NoGrab       == None
ClickGrab(f) == Some([kind |-> "click", window |-> "none", focus |-> f])
MoveGrab(w)  == Some([kind |-> "move", window |-> w, focus |-> None])
ResizeGrab(w, edges, start, size) ==
    Some([kind |-> "resize", window |-> w, focus |-> None, edges |-> edges,
          start |-> start, initial_window_size |-> size,
          last_window_size |-> size])

\* a release that lets go of every button at once
PressedAfterAllUp(b, st) == IF st = "Pressed" THEN pressed \cup {b} ELSE {}

\* pointer.current_pressed() after PointerHandle::button
PressedAfter(b, st) == IF st = "Pressed" THEN pressed \cup {b} ELSE pressed \ {b}

\* the pointer explored stays within 0..MaxPtr logical units on both axes
InRange(hp) ==
    /\ hp[1] >= 0 /\ hp[1] <= ToF64Axis(MaxPtr)
    /\ hp[2] >= 0 /\ hp[2] <= ToF64Axis(MaxPtr)

\* ============================================================= shell/grab.rs
\* round(n / d) for d > 0, ties away from zero, as f64::round
RoundDiv(n, d) ==
    IF n >= 0 THEN (2 * n + d) \div (2 * d) ELSE -((d - 2 * n) \div (2 * d))

\* Space::outputs_for_window filtered by `o.geometry().contains(pos)` (line 56)
MoveOutputs(w) ==
    {o \in space_outputs :
        /\ Overlaps([loc |-> Get(space_loc[w]), size |-> geometry[w].size],
                    OutputGeometry(o))
        /\ Contains(OutputGeometry(o), ToI32Round(ptr))}

\* initial_window_location of a maximized window (lines 68-74):
\* (pos.x - size.w * (pos.x / output.w), pos.y).to_i32_round()
UnmaximizedGrabLocation(o, new_size) ==
    IF IsSome(new_size)
    THEN <<RoundDiv(ptr[1] * (OutputGeometry(o).size[1] - Get(new_size)[1]),
                    2 * OutputGeometry(o).size[1]),
           RoundAxis(ptr[2])>>
    ELSE ToI32Round(ptr)

\* Shell::move_request
move_request(w) ==
    /\ ~crashed
    /\ op' = <<"move_request", w>>
    /\ sent' = <<>>
    /\ IF space_loc[w] = None
       THEN \* space_for_window_mut(..).unwrap()
            /\ crashed' = TRUE
            /\ configured' = <<>>
            /\ UNCHANGED <<spaceVars, layoutVars, pending, grab, move_state,
                           pointer_focus>>
       ELSE IF IsFullscreen(fullscreen, w)
       THEN /\ configured' = <<>>
            /\ UNCHANGED <<spaceVars, layoutVars, pending, grab, move_state,
                           pointer_focus, crashed>>
       ELSE IF MoveOutputs(w) = {}
       THEN \* .find(..).unwrap()
            /\ crashed' = TRUE
            /\ configured' = <<>>
            /\ UNCHANGED <<spaceVars, layoutVars, pending, grab, move_state,
                           pointer_focus>>
       ELSE LET o     == CHOOSE x \in MoveOutputs(w) : TRUE
                maxed == "Maximized" \in current[w]
                pend1 == IF maxed
                         THEN [pending EXCEPT ![w] = UnmaximizedState(w, @)]
                         ELSE pending
                loc1  == IF maxed THEN UnmaximizedLoc(w, space_loc) ELSE space_loc
                init  == IF maxed THEN UnmaximizedGrabLocation(o, pend1[w].size)
                         ELSE Get(space_loc[w])
            IN  /\ pending' = pend1
                /\ configured' = IF maxed THEN <<Configure(w, pend1[w])>> ELSE <<>>
                /\ last_geometry' = PersistOnUnmap(w, pend1, loc1, last_geometry)
                /\ space_loc' = [loc1 EXCEPT ![w] = None]
                /\ space_stack' = SpaceUnmap(space_stack, w)
                /\ pending_windows' = SelectSeq(pending_windows, LAMBDA x : x # w)
                /\ windows' = windows \ {w}
                /\ move_state' = Some([window |-> w,
                                       initial_cursor_location |-> ptr,
                                       initial_window_location |-> init])
                /\ grab' = MoveGrab(w)
                /\ pointer_focus' = None
                /\ UNCHANGED crashed
    /\ UNCHANGED <<outputVars, clientVars, fullscreen, runtime_sender, ptr,
                   pressed, active, focus, pending_focus, idle, devVars, keyboard_grab,
                   resize_state>>

\* window_location of Shell::drop_move (lines 111-113)
DropLocation(ms, pointer) ==
    ToI32Round(Add(ToF64(ms.initial_window_location),
                   Sub(pointer, ms.initial_cursor_location)))

\* a finalize that maps the window without asking whether it is alive
drop_move_unchecked ==
    /\ ~crashed
    /\ Len(idle) > 0
    /\ idle' = Tail(idle)
    /\ op' = <<"drop_move">>
    /\ sent' = <<>>
    /\ move_state' = None
    /\ IF IsSome(move_state)
       THEN /\ layout_map_window(Get(move_state).window,
                                 Some(DropLocation(Get(move_state), ptr)))
            /\ focus' = IF output_from_seat.panic THEN focus
                        ELSE Some(Get(move_state).window)
       ELSE /\ configured' = <<>>
            /\ UNCHANGED <<spaceVars, layoutVars, pending, focus, crashed>>
    /\ UNCHANGED <<outputVars, clientVars, fullscreen, runtime_sender, ptr,
                   pressed, grab, active, pending_focus, pointer_focus,
                   devVars, keyboard_grab>>

\* Shell::drop_move, run as the idle task MoveSurfaceGrab::ungrab inserted
drop_move ==
    /\ ~crashed
    /\ Len(idle) > 0
    /\ idle' = Tail(idle)
    /\ op' = <<"drop_move">>
    /\ sent' = <<>>
    /\ move_state' = None
    /\ IF IsSome(move_state) /\ IsAlive(Get(move_state).window)
       THEN /\ layout_map_window(Get(move_state).window,
                                 Some(DropLocation(Get(move_state), ptr)))
            /\ focus' = IF output_from_seat.panic THEN focus
                        ELSE Some(Get(move_state).window)
       ELSE /\ configured' = <<>>
            /\ UNCHANGED <<spaceVars, layoutVars, pending, focus, crashed>>
    /\ UNCHANGED <<outputVars, clientVars, fullscreen, runtime_sender, ptr,
                   pressed, grab, active, pending_focus, pointer_focus,
                   devVars, keyboard_grab>>

\* ================================================ input/mod.rs: the registry
DeviceIds    == {"d1", "d2", "d3"}
Capabilities == {"Keyboard", "Pointer", "Touch"}

\* the capabilities the registry looks at, in the order of line 52
Supported == <<"Keyboard", "Pointer">>

\* `map.values().flatten()`: every capability some entry of the map holds
Held(map) == UNION {Range(Get(map[d])) : d \in {x \in DeviceIds : IsSome(map[x])}}

\* every reported capability stored, the filter of line 55 left out
DeviceCapsUnfiltered(d) ==
    SelectSeq(<<"Keyboard", "Pointer", "Touch">>, LAMBDA c : c \in reported[d])

\* `caps` of Devices::add_device (lines 52-56)
DeviceCaps(d) == SelectSeq(Supported, LAMBDA c : c \in reported[d])

\* the capabilities of the device returned without the diff against the map
NewCapsNoDiff(map, d) == DeviceCaps(d)

\* `new_caps` of Devices::add_device (lines 57-61)
NewCaps(map, d) == SelectSeq(DeviceCaps(d), LAMBDA c : c \notin Held(map))

\* the map after `map.remove(&id)`
Removed(map, d) == [map EXCEPT ![d] = None]

\* the result of Devices::remove_device (lines 69-73)
LostCaps(map, d) ==
    SelectSeq(IF IsSome(map[d]) THEN Get(map[d]) ELSE <<>>,
              LAMBDA c : c \notin Held(Removed(map, d)))

\* Devices::has_device
has_device(d) == IsSome(devices[d])

Reported(rep, caps, kind) ==
    [c \in Capabilities |-> IF c \in caps THEN kind ELSE rep[c]]

\* InputEvent::DeviceAdded -> Devices::add_device
add_device(d) ==
    /\ ~crashed
    /\ op' = <<"add_device", d>>
    /\ configured' = <<>> /\ sent' = <<>>
    /\ returned' = [gained |-> Range(NewCaps(devices, d)), lost |-> {}]
    /\ devices' = [devices EXCEPT ![d] = Some(DeviceCaps(d))]
    /\ registered' = registered \cup {d}
    /\ last_report' = Reported(last_report, returned'.gained, "gained")
    /\ UNCHANGED <<shellVars, keyboard_grab, ptr, pressed, grab, move_state, active, focus,
                   pending_focus, pointer_focus, idle, reported, crashed>>

\* InputEvent::DeviceRemoved -> Devices::remove_device, only for a seat that
\* has the device
remove_device(d) ==
    /\ ~crashed
    /\ op' = <<"remove_device", d>>
    /\ configured' = <<>> /\ sent' = <<>>
    /\ IF has_device(d)
       THEN /\ returned' = [gained |-> {}, lost |-> Range(LostCaps(devices, d))]
            /\ devices' = Removed(devices, d)
       ELSE /\ returned' = [gained |-> {}, lost |-> {}]
            /\ UNCHANGED devices
    /\ registered' = registered \ {d}
    /\ last_report' = Reported(last_report, returned'.lost, "lost")
    /\ UNCHANGED <<shellVars, keyboard_grab, ptr, pressed, grab, move_state, active, focus,
                   pending_focus, pointer_focus, idle, reported, crashed>>

\* ========================================== input/mod.rs: pointer events
\* an ungrab that releases the pointer grab and queues nothing
UngrabNoTask ==
    IF active_output.panic
    THEN /\ crashed' = TRUE
         /\ UNCHANGED <<grab, idle, pointer_focus>>
    ELSE /\ idle' = idle
         /\ grab' = NoGrab
         /\ pointer_focus' = pending_focus'
         /\ UNCHANGED crashed

\* PointerHandle::unset_grab at the end of MoveSurfaceGrab::ungrab: the grab
\* goes and the focus of the last motion event is restored
Ungrab ==
    IF active_output.panic
    THEN /\ crashed' = TRUE
         /\ UNCHANGED <<grab, idle, pointer_focus>>
    ELSE /\ Len(idle) < MaxIdle
         /\ idle' = Append(idle, [output |-> active_output.output,
                                  released_at |-> ptr'])
         /\ grab' = NoGrab
         /\ pointer_focus' = pending_focus'
         /\ UNCHANGED crashed

\* `(x as f64 + d) as i32` for a sum given in half units: the cast truncates
TruncAxis(h) == IF h >= 0 THEN h \div 2 ELSE -((-h) \div 2)

\* one axis of the size ResizeSurfaceGrab::motion proposes, the clamp to the
\* maximum left out
ResizedAxisNoMax(initial, d, on, flip, mn, mx) ==
    LET raw == IF on
               THEN TruncAxis(ToF64Axis(initial) + (IF flip THEN -d ELSE d))
               ELSE initial
    IN  Max(raw, Max(mn, 1))

\* one axis of the size ResizeSurfaceGrab::motion proposes (lines 108-151):
\* `d` is the pointer travel since the grab started, in half units
ResizedAxis(initial, d, on, flip, mn, mx) ==
    LET raw == IF on
               THEN TruncAxis(ToF64Axis(initial) + (IF flip THEN -d ELSE d))
               ELSE initial
        lo  == Max(raw, Max(mn, 1))
    IN  IF mx = 0 THEN lo ELSE Min(lo, mx)

\* the size proposed when the travel is never negated for LEFT and TOP
ResizedSizeNoFlip(g, pos) ==
    LET w == g.window
    IN  <<ResizedAxis(g.initial_window_size[1], pos[1] - g.start[1],
                      g.edges \cap {"LEFT", "RIGHT"} # {}, FALSE,
                      attrs[w].min_size[1], attrs[w].max_size[1]),
          ResizedAxis(g.initial_window_size[2], pos[2] - g.start[2],
                      g.edges \cap {"TOP", "BOTTOM"} # {}, FALSE,
                      attrs[w].min_size[2], attrs[w].max_size[2])>>

\* last_window_size after ResizeSurfaceGrab::motion at the given location
ResizedSize(g, pos) ==
    LET w == g.window
    IN  <<ResizedAxis(g.initial_window_size[1], pos[1] - g.start[1],
                      g.edges \cap {"LEFT", "RIGHT"} # {}, "LEFT" \in g.edges,
                      attrs[w].min_size[1], attrs[w].max_size[1]),
          ResizedAxis(g.initial_window_size[2], pos[2] - g.start[2],
                      g.edges \cap {"TOP", "BOTTOM"} # {}, "TOP" \in g.edges,
                      attrs[w].min_size[2], attrs[w].max_size[2])>>

\* a motion handler that negotiates a size without asking whether the
\* window is alive
ResizeMotionUnchecked(pos) ==
    LET g == Get(grab)
        w == g.window
    IN  /\ grab' = Some([g EXCEPT !.last_window_size = ResizedSize(g, pos)])
        /\ pointer_focus' = None
        /\ pending' = [pending EXCEPT ![w] =
                         [states |-> @.states \cup {"Resizing"},
                          size   |-> Some(ResizedSize(g, pos))]]
        /\ configured' = <<Configure(w, pending'[w])>>
        /\ UNCHANGED <<idle, crashed>>

\* ResizeSurfaceGrab::motion
ResizeMotion(pos) ==
    LET g == Get(grab)
        w == g.window
    IN  IF ~IsAlive(w)
        THEN /\ grab' = NoGrab
             /\ pointer_focus' = pending_focus'
             /\ configured' = <<>>
             /\ UNCHANGED <<pending, idle, crashed>>
        ELSE /\ grab' = Some([g EXCEPT !.last_window_size = ResizedSize(g, pos)])
             /\ pointer_focus' = None
             /\ pending' = [pending EXCEPT ![w] =
                              [states |-> @.states \cup {"Resizing"},
                               size   |-> Some(ResizedSize(g, pos))]]
             /\ configured' = <<Configure(w, pending'[w])>>
             /\ UNCHANGED <<idle, crashed>>

\* PointerHandle::motion: the event goes to the grab that owns the pointer
Motion(pos, under) ==
    /\ ptr' = pos
    /\ pending_focus' = under
    /\ IF grab = NoGrab
       THEN /\ pointer_focus' = under
            /\ configured' = <<>>
            /\ UNCHANGED <<grab, idle, crashed, pending>>
       ELSE IF Get(grab).kind = "click"
       THEN /\ pointer_focus' = Get(grab).focus
            /\ configured' = <<>>
            /\ UNCHANGED <<grab, idle, crashed, pending>>
       ELSE IF Get(grab).kind = "resize"
       THEN ResizeMotion(pos)
       ELSE \* MoveSurfaceGrab::motion
            /\ configured' = <<>>
            /\ UNCHANGED pending
            /\ IF IsAlive(Get(grab).window)
               THEN /\ pointer_focus' = None
                    /\ UNCHANGED <<grab, idle, crashed>>
               ELSE Ungrab

\* the output is never looked up: the one before is kept
OutputAtKeep(hp, fallback) == fallback

\* first output of Shell.outputs whose geometry holds the position (line 147)
OutputAt(hp, fallback) ==
    LET hit == {i \in DOMAIN outputs : ContainsF(OutputGeometry(outputs[i]), hp)}
    IN  IF hit = {} THEN fallback
        ELSE outputs[CHOOSE i \in hit : \A j \in hit : i <= j]

\* the clamp of lines 159-164
ClampTo(hp, geo) ==
    <<Min(Max(0, hp[1]), ToF64Axis(geo.loc[1] + geo.size[1])),
      Min(Max(0, hp[2]), ToF64Axis(geo.loc[2] + geo.size[2]))>>

\* InputEvent::PointerMotion, recorded in the step variable as `event`
PointerMotion(d, delta, event) ==
    /\ ~crashed
    /\ op' = event
    /\ sent' = <<>>
    /\ IF ~has_device(d)
       THEN /\ configured' = <<>>
            /\ UNCHANGED <<ptr, pending_focus, pointer_focus, grab, idle, active,
                           crashed, pending>>
       ELSE IF active_output.panic
       THEN /\ crashed' = TRUE
            /\ configured' = <<>>
            /\ UNCHANGED <<ptr, pending_focus, pointer_focus, grab, idle, active,
                           pending>>
       ELSE LET cur == active_output.output
                out == OutputAt(Add(ptr, delta), cur)
                geo == OutputGeometry(out)
                pos == ClampTo(Add(ptr, delta), geo)
            IN  /\ InRange(pos)
                /\ active' = IF out # cur THEN Some(out) ELSE active
                /\ Motion(pos, surface_under(pos,
                                space_relative_output_geometry(pos, out), out, geo))
    /\ UNCHANGED <<outputVars, spaceVars, layoutVars, clientVars, fullscreen,
                   runtime_sender, pressed, move_state, focus, devVars, keyboard_grab>>

pointer_motion(d, delta) == PointerMotion(d, delta, <<"pointer_motion">>)

\* the same handler, the delta of the event kept in the step variable
pointer_motion_by(d, delta) == PointerMotion(d, delta, <<"pointer_motion", delta>>)

\* InputEvent::PointerMotionAbsolute; `at` is event.position_transformed(size)
pointer_motion_absolute(d, at) ==
    /\ ~crashed
    /\ op' = <<"pointer_motion_absolute">>
    /\ sent' = <<>>
    /\ IF ~has_device(d)
       THEN /\ configured' = <<>>
            /\ UNCHANGED <<ptr, pending_focus, pointer_focus, grab, idle, crashed,
                           pending>>
       ELSE IF active_output.panic
       THEN /\ crashed' = TRUE
            /\ configured' = <<>>
            /\ UNCHANGED <<ptr, pending_focus, pointer_focus, grab, idle, pending>>
       ELSE LET out == active_output.output
                geo == OutputGeometry(out)
                pos == Add(ToF64(geo.loc), at)
            IN  Motion(pos, surface_under(pos,
                                space_relative_output_geometry(pos, out), out, geo))
    /\ UNCHANGED <<outputVars, spaceVars, layoutVars, clientVars, fullscreen,
                   runtime_sender, pressed, move_state, active, focus,
                   devVars, keyboard_grab>>

\* ResizeState: the variant, its ResizeData (an Option: None for NotResizing)
\* and, for WaitingForFinalAck only, the serial; `absent` stands for a window
\* without the user data
NoResizeState == [variant |-> "absent", data |-> None, serial |-> None]

ResizeData(edges, loc, size) ==
    [edges |-> edges, initial_window_location |-> loc, initial_window_size |-> size]

Resizing(data) == [variant |-> "Resizing", data |-> data, serial |-> None]

\* the sub-state after a release that keeps the serial the grab started with
WaitingForFinalAckStale(data, serial) ==
    [variant |-> "WaitingForFinalAck", data |-> data, serial |-> Some(0)]

WaitingForFinalAck(data, serial) ==
    [variant |-> "WaitingForFinalAck", data |-> data, serial |-> Some(serial)]

\* `event.serial` of the button event a handler is dispatching
EventSerial(event) == event[4]

\* the per-window resize sub-state is one a release may leave
\* (`if let ResizeState::Resizing(..)`), every sub-state accepted
ReleaseAllowedAlways(rs) == TRUE

\* the per-window resize sub-state is one a release may leave
\* (`if let ResizeState::Resizing(..)`, line 198)
ReleaseAllowed(rs) == rs.variant = "Resizing"

\* ResizeSurfaceGrab::button once no button is pressed (lines 174-203)
ResizeRelease ==
    LET g == Get(grab)
        w == g.window
    IN  /\ grab' = NoGrab
        /\ pointer_focus' = pending_focus'
        /\ UNCHANGED idle
        /\ IF ~IsAlive(w)
           THEN /\ configured' = <<>>
                /\ UNCHANGED <<pending, resize_state, crashed>>
           ELSE /\ pending' = [pending EXCEPT ![w] =
                                 [states |-> @.states \ {"Resizing"},
                                  size   |-> Some(g.last_window_size)]]
                /\ configured' = <<Configure(w, pending'[w])>>
                /\ IF ReleaseAllowed(resize_state[w])
                   THEN /\ resize_state' =
                             [resize_state EXCEPT ![w] =
                                WaitingForFinalAck(@.data, EventSerial(op'))]
                        /\ UNCHANGED crashed
                   ELSE \* `.unwrap()` on absent user data, or `panic!`
                        /\ crashed' = TRUE
                        /\ UNCHANGED resize_state

\* PointerHandle::button: the event goes to the grab that owns the pointer
Button(b, st) ==
    /\ pressed' = PressedAfter(b, st)
    /\ IF grab = NoGrab
       THEN \* the default grab: a press starts a click grab that keeps the focus
            /\ grab' = IF st = "Pressed" THEN ClickGrab(pointer_focus) ELSE grab
            /\ configured' = <<>>
            /\ UNCHANGED <<pointer_focus, idle, crashed, pending, resize_state>>
       ELSE IF pressed' # {}
       THEN /\ configured' = <<>>
            /\ UNCHANGED <<grab, pointer_focus, idle, crashed, pending, resize_state>>
       ELSE IF Get(grab).kind = "click"
       THEN /\ grab' = NoGrab
            /\ pointer_focus' = pending_focus'
            /\ configured' = <<>>
            /\ UNCHANGED <<idle, crashed, pending, resize_state>>
       ELSE IF Get(grab).kind = "resize"
       THEN ResizeRelease
       ELSE \* MoveSurfaceGrab::button
            /\ configured' = <<>>
            /\ UNCHANGED <<pending, resize_state>>
            /\ Ungrab

\* the serials SERIAL_COUNTER hands to the button events explored: two for
\* the events a resize grab sees (the one handler that keeps the serial),
\* one for the others
Serials ==
    IF IsSome(grab) /\ Get(grab).kind = "resize" THEN {1, 2} ELSE {1}

\* a pointer that never counts as grabbed
is_grabbed_never == FALSE

\* PointerHandle::is_grabbed (line 245)
is_grabbed == grab # NoGrab

\* InputEvent::PointerButton
pointer_button(d, b, st) ==
    /\ ~crashed
    /\ (st = "Pressed") = (b \notin pressed)
    /\ \E serial \in Serials : op' = <<"pointer_button", b, st, serial>>
    /\ sent' = <<>>
    /\ UNCHANGED <<ptr, pending_focus>>
    /\ IF ~has_device(d)
       THEN /\ configured' = <<>>
            /\ UNCHANGED <<pressed, grab, pointer_focus, idle, focus, crashed,
                           pending, resize_state>>
       ELSE IF st = "Pressed" /\ ~is_grabbed /\ ~keyboard_grab
       THEN IF active_output.panic
            THEN /\ crashed' = TRUE
                 /\ configured' = <<>>
                 /\ UNCHANGED <<pressed, grab, pointer_focus, idle, focus,
                                pending, resize_state>>
            ELSE LET out == active_output.output
                 IN  /\ focus' = focus_under(ptr,
                                    space_relative_output_geometry(ptr, out),
                                    out, OutputGeometry(out))
                     /\ Button(b, st)
       ELSE /\ UNCHANGED focus
            /\ Button(b, st)
    /\ UNCHANGED <<outputVars, spaceVars, windows, pending_windows, last_geometry,
                   clientVars, fullscreen, runtime_sender, move_state, active,
                   devVars, keyboard_grab>>

\* InputEvent::PointerAxis: the frame is forwarded, no state of the core changes
pointer_axis(d) ==
    /\ ~crashed
    /\ op' = <<"pointer_axis">>
    /\ configured' = <<>> /\ sent' = <<>>
    /\ UNCHANGED <<shellVars, seatVars, crashed>>

\* ================================================== clients and the engine
\* a client takes or gives up the keyboard grab of the seat (popup grab)
keyboard_set_grab(on) ==
    /\ ~crashed
    /\ keyboard_grab # on
    /\ op' = <<"keyboard_set_grab", on>>
    /\ configured' = <<>> /\ sent' = <<>>
    /\ keyboard_grab' = on
    /\ UNCHANGED <<shellVars, ptr, pressed, grab, move_state, active, focus,
                   pending_focus, pointer_focus, idle, devVars, crashed>>

\* the client of a window disconnects: `window.alive()` turns false
client_disconnect(w) ==
    /\ ~crashed
    /\ alive[w]
    /\ op' = <<"client_disconnect", w>>
    /\ configured' = <<>> /\ sent' = <<>>
    /\ alive' = [alive EXCEPT ![w] = FALSE]
    /\ UNCHANGED <<outputVars, spaceVars, layoutVars, geometry, attrs, current,
                   fullscreen, pending, runtime_sender, seatVars, crashed>>

\* the client acks the last configure and commits: the configured states
\* become current, and the window geometry takes the committed size
client_commit(w, size) ==
    /\ ~crashed
    /\ alive[w]
    /\ op' = <<"client_commit", w>>
    /\ configured' = <<>> /\ sent' = <<>>
    /\ current' = [current EXCEPT ![w] = pending[w].states]
    /\ geometry' = [geometry EXCEPT ![w].size = size]
    /\ UNCHANGED <<outputVars, spaceVars, layoutVars, alive, attrs, fullscreen,
                   pending, runtime_sender, seatVars, crashed>>

\* the sizes a client may commit: the proposed one, or its own when none is
CommitSizes(w) ==
    IF IsSome(pending[w].size) THEN {Get(pending[w].size)} ELSE {geometry[w].size}

\* a channel that hands out the newest message first
RecvNewest(q) == SubSeq(q, 1, Len(q) - 1)

\* what is left on the channel after the receiver took a message: the
\* channel hands them out oldest first
Recv(q) == Tail(q)

\* the policy engine takes the next message off the channel
runtime_recv ==
    /\ ~crashed
    /\ Len(runtime_sender) > 0
    /\ op' = <<"runtime_recv">>
    /\ configured' = <<>> /\ sent' = <<>>
    /\ runtime_sender' = Recv(runtime_sender)
    /\ UNCHANGED <<outputVars, spaceVars, layoutVars, clientVars, fullscreen,
                   pending, seatVars, crashed>>

\* the size and place the policy engine gives a maximized window: the
\* non-exclusive zone of the output
MaximizedSize(o) == NonExclusiveZone(o).size
MaximizedLoc(o)  == Add(OutputGeometry(o).loc, NonExclusiveZone(o).loc)

\* the policy engine applies a MaximizeRequest it takes off the channel
engine_maximize ==
    /\ ~crashed
    /\ Len(runtime_sender) > 0
    /\ Head(runtime_sender).kind = "MaximizeRequest"
    /\ LET w == Head(runtime_sender).window
           o == Head(runtime_sender).output
       IN  /\ IsSome(space_loc[w])
           /\ op' = <<"engine_maximize", w, o>>
           /\ pending' = [pending EXCEPT ![w] =
                            [states |-> @.states \cup {"Maximized"},
                             size   |-> Some(MaximizedSize(o))]]
           /\ configured' = <<Configure(w, pending'[w])>>
           /\ space_loc' = [space_loc EXCEPT ![w] = Some(MaximizedLoc(o))]
           /\ space_stack' = SpaceMap(space_stack, w)
    /\ sent' = <<>>
    /\ runtime_sender' = Tail(runtime_sender)
    /\ UNCHANGED <<outputVars, layoutVars, clientVars, fullscreen, seatVars,
                   crashed>>

\* the policy engine answers a ResizeRequest by starting a resize grab on the
\* window with the edges of the request; `mark` tells whether it also moves
\* the per-window sub-state to Resizing
resize_grab_start(w, edges, mark) ==
    /\ ~crashed
    /\ alive[w]
    /\ op' = <<"resize_grab_start", w, edges>>
    /\ configured' = <<>> /\ sent' = <<>>
    /\ grab' = ResizeGrab(w, edges, ptr, geometry[w].size)
    /\ pointer_focus' = None
    /\ resize_state' =
          IF mark
          THEN [resize_state EXCEPT ![w] =
                  Resizing(Some(ResizeData(edges, geometry[w].loc,
                                           geometry[w].size)))]
          ELSE resize_state
    /\ UNCHANGED <<outputVars, spaceVars, windows, pending_windows, last_geometry,
                   clientVars, fullscreen, pending, runtime_sender, ptr, pressed,
                   move_state, active, focus, pending_focus, idle, devVars, keyboard_grab,
                   crashed>>

\* ===================================================== the specifications
NoState == [states |-> {}, size |-> None]

\* the outputs attached to the shell and mapped into the space
Attached(outs) ==
    /\ outputs = outs
    /\ space_outputs = Range(outs)

\* the registry after DeviceAdded for the pointing device `d1`, or before it
Plugged(yes) ==
    /\ devices = [d \in DeviceIds |->
                    IF yes /\ d = "d1" THEN Some(<<"Pointer">>) ELSE None]
    /\ registered = IF yes THEN {"d1"} ELSE {}
    /\ returned = [gained |-> IF yes THEN {"Pointer"} ELSE {}, lost |-> {}]
    /\ last_report = [c \in Capabilities |->
                        IF yes /\ c = "Pointer" THEN "gained" ELSE "none"]

\* the shell, the seat and the channel as State::new leaves them
InitRest ==
    /\ layer_map = [o \in Outputs |-> <<>>]
    /\ pending_layers = <<>>
    /\ space_loc = [w \in Windows |-> None]
    /\ space_stack = <<>>
    /\ fullscreen = [o \in Outputs |-> None]
    /\ windows = {}
    /\ pending_windows = <<>>
    /\ last_geometry = [w \in Windows |-> None]
    /\ resize_state = [w \in Windows |-> NoResizeState]
    /\ alive = [w \in Windows |-> TRUE]
    /\ pending = [w \in Windows |-> NoState]
    /\ current = [w \in Windows |-> {}]
    /\ runtime_sender = <<>>
    /\ ptr = <<0, 0>>
    /\ pressed = {}
    /\ grab = NoGrab
    /\ keyboard_grab = FALSE
    /\ move_state = None
    /\ active = None
    /\ focus = None
    /\ pending_focus = None
    /\ pointer_focus = None
    /\ idle = <<>>
    /\ crashed = FALSE
    /\ op = <<"init">>
    /\ configured = <<>>
    /\ sent = <<>>

\* everything but the windows' client-side data, as State::new leaves it
InitCore == Attached(<<>>) /\ Plugged(FALSE) /\ InitRest

\* the pointing device of the backend
Mouse == [d \in DeviceIds |-> IF d = "d1" THEN {"Pointer"} ELSE {}]

Init ==
    /\ InitCore
    /\ reported = Mouse
    /\ geometry = [w \in Windows |-> [loc |-> <<0, 0>>, size |-> <<3, 2>>]]
    /\ attrs = [w \in Windows |-> [min_size |-> <<0, 0>>, max_size |-> <<0, 0>>]]

\* the fullscreen slots of the workspace under output changes, requests,
\* periodic refresh and client disconnects
Next ==
    \/ \E o \in Outputs : add_output(o)
    \/ \E o \in Outputs : remove_output(o)
    \/ refresh_outputs
    \/ refresh
    \/ \E w \in Windows, o \in space_outputs : fullscreen_request(w, o)
    \/ \E w \in Windows : unfullscreen_request(w)
    \/ \E w \in Windows : unmaximize_request(w)
    \/ \E w \in Windows : client_disconnect(w)
    \/ runtime_recv

Spec == Init /\ [][Next]_vars

\* the device registry of the seat alone: every device reports some fixed
\* set of capabilities, devices come and go in any order
InitDev ==
    /\ InitCore
    /\ reported \in [DeviceIds -> SUBSET Capabilities]
    /\ geometry = [w \in Windows |-> [loc |-> <<0, 0>>, size |-> <<3, 2>>]]
    /\ attrs = [w \in Windows |-> [min_size |-> <<0, 0>>, max_size |-> <<0, 0>>]]

NextDev ==
    \/ \E d \in DeviceIds : add_device(d)
    \/ \E d \in DeviceIds : remove_device(d)

SpecDev == InitDev /\ [][NextDev]_vars

\* the floating layout of one output: windows of several sizes are mapped,
\* unmapped, maximized through the policy engine, made fullscreen and dragged;
\* the backend has attached its first output and its pointing device
WindowSizes == {<<1, 1>>, <<3, 2>>}

InitLayout ==
    /\ Attached(<<"o1">>) /\ Plugged(TRUE) /\ InitRest
    /\ reported = Mouse
    /\ \E s \in WindowSizes :
          geometry = [w \in Windows |-> [loc |-> <<0, 0>>, size |-> s]]
    /\ attrs = [w \in Windows |-> [min_size |-> <<0, 0>>, max_size |-> <<0, 0>>]]

NextLayout ==
    \/ \E position \in {None, Some(<<1, 1>>)} : map_window("w1", position)
    \/ unmap_window("w1")
    \/ maximize_request("w1", "o1")
    \/ engine_maximize
    \/ \E size \in CommitSizes("w1") : client_commit("w1", size)
    \/ move_request("w1")
    \/ fullscreen_request("w1", "o1")

SpecLayout == InitLayout /\ [][NextLayout]_vars

\* a window dragged with the pointer: it is mapped, a move grab starts,
\* buttons and motion events arrive, the idle task finalizes the move, and
\* the client may go at any time
PointerDeltas == {<<3, 1>>, <<-3, -1>>}

\* the pointer locations the deltas lead to
PointerTrack == {<<0, 0>>, <<3, 1>>}

InitMove ==
    /\ Attached(<<"o1">>) /\ Plugged(TRUE) /\ InitRest
    /\ reported = Mouse
    /\ geometry = [w \in Windows |-> [loc |-> <<0, 0>>, size |-> <<2, 2>>]]
    /\ attrs = [w \in Windows |-> [min_size |-> <<0, 0>>, max_size |-> <<0, 0>>]]

NextMove ==
    \/ map_window("w1", None)
    \/ move_request("w1")
    \/ \E b \in Buttons, st \in {"Pressed", "Released"} : pointer_button("d1", b, st)
    \/ \E delta \in {d \in PointerDeltas : Add(ptr, d) \in PointerTrack} :
          pointer_motion("d1", delta)
    \/ pointer_axis("d1")
    \/ drop_move
    \/ client_disconnect("w1")

SpecMove == InitMove /\ [][NextMove]_vars

\* what lies under the pointer: layer surfaces and windows come onto two
\* outputs, windows go fullscreen, clients leave, and the pointer is moved
PointerProbes == {<<3, 1>>, <<5, 3>>}

OutputJumps == {<<8, 0>>, <<-8, 0>>}

\* the layer surfaces of the bands above the windows
UpperLayers == {l \in LayerIds : LayerSurface(l).layer \in {"Overlay", "Top"}}

InitHit ==
    /\ Attached(<<"o1", "o2">>) /\ Plugged(TRUE) /\ InitRest
    /\ reported = Mouse
    /\ geometry = [w \in Windows |-> [loc |-> <<0, 0>>, size |-> <<3, 2>>]]
    /\ attrs = [w \in Windows |-> [min_size |-> <<0, 0>>, max_size |-> <<0, 0>>]]

NextHit ==
    \/ \E l \in UpperLayers : new_layer_surface(l, None)
    \/ \E l \in LayerIds : map_layer(l)
    \/ map_window("w1", Some(<<0, 0>>))
    \/ \E o \in Outputs : fullscreen_request("w2", o)
    \/ \E at \in PointerProbes : pointer_motion_absolute("d1", at)
    \/ \E delta \in OutputJumps : pointer_motion("d1", delta)
    \/ client_disconnect("w2")

SpecHit == InitHit /\ [][NextHit]_vars

\* placement of new windows: clients of several natural sizes and size
\* limits map and unmap a window while the pointer moves between two outputs
NaturalSizes == {<<1, 1>>, <<3, 2>>, <<4, 3>>}

SizeLimits == {<<0, 0>>, <<1, 1>>, <<2, 2>>, <<3, 3>>, <<5, 5>>}

InitPlace ==
    /\ Attached(<<"o1", "o2">>) /\ Plugged(TRUE) /\ InitRest
    /\ reported = Mouse
    /\ \E s \in NaturalSizes :
          geometry = [w \in Windows |-> [loc |-> <<0, 0>>, size |-> s]]
    /\ \E mn \in SizeLimits, mx \in SizeLimits :
          /\ mx = <<0, 0>> \/ mn[1] <= mx[1]
          /\ attrs = [w \in Windows |-> [min_size |-> mn, max_size |-> mx]]

NextPlace ==
    \/ map_window("w1", None)
    \/ unmap_window("w1")
    \/ \E size \in CommitSizes("w1") : client_commit("w1", size)
    \/ \E delta \in OutputJumps : pointer_motion("d1", delta)

SpecPlace == InitPlace /\ [][NextPlace]_vars

\* a window resized with the pointer: the grab starts on some edges, motion
\* and button events arrive, the client may go; the window starts
\* with a size within the limits it advertises
ResizeEdges == {{"RIGHT"}, {"BOTTOM"}, {"TOP", "LEFT"}, {"BOTTOM", "RIGHT"}}

ResizeTrack == {<<0, 0>>, <<3, 1>>, <<6, 2>>}

ResizeLimits == {<<0, 0>>, <<0, 2>>, <<2, 2>>, <<3, 0>>}

ResizeStates ==
    {"absent", "NotResizing", "Resizing", "WaitingForFinalAck", "WaitingForCommit"}

WithinLimits(size, mn, mx) ==
    \A i \in {1, 2} : mn[i] <= size[i] /\ (mx[i] = 0 \/ size[i] <= mx[i])

InitResize ==
    /\ Attached(<<"o1">>) /\ Plugged(TRUE)
    /\ layer_map = [o \in Outputs |-> <<>>]
    /\ pending_layers = <<>>
    /\ space_loc = [w \in Windows |-> None]
    /\ space_stack = <<>>
    /\ fullscreen = [o \in Outputs |-> None]
    /\ windows = {}
    /\ pending_windows = <<>>
    /\ last_geometry = [w \in Windows |-> None]
    /\ \E v \in {"absent", "NotResizing", "WaitingForCommit"} :
          resize_state =
            [w \in Windows |->
               IF w = "w2" \/ v = "absent" THEN NoResizeState
               ELSE [variant |-> v,
                     data    |-> IF v = "WaitingForCommit"
                                 THEN Some(ResizeData({"TOP"}, <<0, 0>>, <<1, 1>>))
                                 ELSE None,
                     serial  |-> None]]
    /\ alive = [w \in Windows |-> TRUE]
    /\ pending = [w \in Windows |-> NoState]
    /\ current = [w \in Windows |-> {}]
    /\ runtime_sender = <<>>
    /\ ptr = <<0, 0>>
    /\ pressed = {}
    /\ grab = NoGrab
    /\ keyboard_grab = FALSE
    /\ move_state = None
    /\ active = None
    /\ focus = None
    /\ pending_focus = None
    /\ pointer_focus = None
    /\ idle = <<>>
    /\ crashed = FALSE
    /\ op = <<"init">>
    /\ configured = <<>>
    /\ sent = <<>>
    /\ reported = Mouse
    /\ \E s \in {<<1, 1>>, <<2, 2>>}, mn \in {<<0, 0>>, <<2, 1>>}, mx \in ResizeLimits :
          /\ WithinLimits(s, mn, mx)
          /\ geometry = [w \in Windows |-> [loc |-> <<0, 0>>, size |-> s]]
          /\ attrs = [w \in Windows |-> [min_size |-> mn, max_size |-> mx]]

NextResize ==
    \/ \E edges \in ResizeEdges, mark \in BOOLEAN : resize_grab_start("w1", edges, mark)
    \/ \E delta \in {d \in PointerDeltas : Add(ptr, d) \in ResizeTrack} :
          pointer_motion("d1", delta)
    \/ \E st \in {"Pressed", "Released"} : pointer_button("d1", "left", st)
    \/ client_disconnect("w1")

SpecResize == InitResize /\ [][NextResize]_vars

\* the client of a window goes at any point: while the window is mapped,
\* dragged, resized, fullscreen, or waits for the move finalize; the motion
\* events carry a delta that rounds to nothing, so the pointer stays put
InitDeath ==
    /\ Attached(<<"o1">>) /\ Plugged(TRUE) /\ InitRest
    /\ reported = Mouse
    /\ geometry = [w \in Windows |-> [loc |-> <<0, 0>>, size |-> <<2, 2>>]]
    /\ attrs = [w \in Windows |-> [min_size |-> <<0, 0>>, max_size |-> <<0, 0>>]]

NextDeath ==
    \/ map_window("w1", Some(<<0, 0>>))
    \/ unmap_window("w1")
    \/ \E w \in {x \in {"w1"} : alive[x]} : move_request(w)
    \/ \E mark \in BOOLEAN : resize_grab_start("w1", {"RIGHT"}, mark)
    \/ pointer_motion("d1", <<0, 0>>)
    \/ \E st \in {"Pressed", "Released"} : pointer_button("d1", "left", st)
    \/ drop_move
    \/ fullscreen_request("w1", "o1")
    \/ refresh
    \/ client_disconnect("w1")

SpecDeath == InitDeath /\ [][NextDeath]_vars

\* the requests the workspace hands on to the policy engine, from two
\* clients, interleaved with the engine taking messages off the channel
InitChan ==
    /\ Attached(<<"o1">>) /\ Plugged(TRUE) /\ InitRest
    /\ reported = Mouse
    /\ geometry = [w \in Windows |-> [loc |-> <<0, 0>>, size |-> <<2, 2>>]]
    /\ attrs = [w \in Windows |-> [min_size |-> <<0, 0>>, max_size |-> <<0, 0>>]]

NextChan ==
    \/ \E w \in Windows : maximize_request(w, "o1")
    \/ \E w \in Windows : unmaximize_request(w)
    \/ \E w \in Windows : resize_request(w, {"RIGHT"})
    \/ \E w \in Windows : fullscreen_request(w, "o1")
    \/ runtime_recv

SpecChan == InitChan /\ [][NextChan]_vars

\* two windows on one output, each dragged in turn: a client asks for a
\* move while a button is held and no move grab of the seat is active, the
\* button goes up, the idle task finalizes
InitGrabs ==
    /\ Attached(<<"o1">>) /\ Plugged(TRUE) /\ InitRest
    /\ reported = Mouse
    /\ geometry = [w \in Windows |-> [loc |-> <<0, 0>>, size |-> <<2, 2>>]]
    /\ attrs = [w \in Windows |-> [min_size |-> <<0, 0>>, max_size |-> <<0, 0>>]]

NextGrabs ==
    \/ \E w \in Windows : space_loc[w] = None /\ map_window(w, Some(<<0, 0>>))
    \/ \E w \in Windows :
          /\ IsSome(grab) /\ Get(grab).kind = "click"
          /\ IsSome(space_loc[w])
          /\ move_request(w)
    \/ \E st \in {"Pressed", "Released"} : pointer_button("d1", "left", st)
    \/ drop_move

SpecGrabs == InitGrabs /\ [][NextGrabs]_vars

\* calloop runs every queued idle task at the end of the dispatch that
\* queued it, so a queued finalize is not postponed for ever
SpecGrabsFair == SpecGrabs /\ WF_vars(drop_move)

\* the end of a resize grab: one window, a grab on one of two edge sets,
\* two buttons pressed and released in any order, the pointer moved, and the
\* client free to go at any moment
InitRelease ==
    /\ Attached(<<"o1">>) /\ Plugged(TRUE) /\ InitRest
    /\ reported = Mouse
    /\ geometry = [w \in Windows |-> [loc |-> <<0, 0>>, size |-> <<2, 2>>]]
    /\ attrs = [w \in Windows |-> [min_size |-> <<0, 0>>, max_size |-> <<0, 0>>]]

NextRelease ==
    \/ \E edges \in {{"RIGHT"}, {"TOP", "LEFT"}}, mark \in BOOLEAN :
          resize_grab_start("w1", edges, mark)
    \/ \E delta \in {d \in PointerDeltas : Add(ptr, d) \in PointerTrack} :
          pointer_motion("d1", delta)
    \/ \E b \in Buttons, st \in {"Pressed", "Released"} : pointer_button("d1", b, st)
    \/ client_disconnect("w1")

SpecRelease == InitRelease /\ [][NextRelease]_vars

\* the size a resize grab proposes, as a function of the edges, the pointer
\* travel and the limits the client advertises: the grab starts on a 2x2
\* window at any point of the track with any edge value of the protocol, and
\* the limits are any pair of the values below, ordered or not
AllEdges ==
    {{}, {"TOP"}, {"BOTTOM"}, {"LEFT"}, {"RIGHT"}, {"TOP", "LEFT"},
     {"BOTTOM", "LEFT"}, {"TOP", "RIGHT"}, {"BOTTOM", "RIGHT"}}

ClampLimits == {<<0, 0>>, <<3, 1>>, <<1, 3>>}

InitClamp ==
    /\ Attached(<<"o1">>) /\ Plugged(TRUE) /\ InitRest
    /\ reported = Mouse
    /\ geometry = [w \in Windows |-> [loc |-> <<0, 0>>, size |-> <<2, 2>>]]
    /\ \E mn \in ClampLimits, mx \in ClampLimits :
          attrs = [w \in Windows |-> [min_size |-> mn, max_size |-> mx]]

NextClamp ==
    \/ \E edges \in AllEdges : resize_grab_start("w1", edges, TRUE)
    \/ \E delta \in {d \in PointerDeltas : Add(ptr, d) \in ResizeTrack} :
          pointer_motion("d1", delta)

SpecClamp == InitClamp /\ [][NextClamp]_vars

\* who gets the keyboard focus on a button press: layer surfaces of three
\* bands come onto one output, one at a time, a floating window is mapped
\* and a second window goes fullscreen, the pointer is put on one of three
\* points and a button is pressed and released
FocusProbes == {<<3, 1>>, <<5, 3>>, <<1, 5>>}

InitFocus ==
    /\ Attached(<<"o1">>) /\ Plugged(TRUE) /\ InitRest
    /\ reported = Mouse
    /\ geometry = [w \in Windows |-> [loc |-> <<0, 0>>, size |-> <<3, 2>>]]
    /\ attrs = [w \in Windows |-> [min_size |-> <<0, 0>>, max_size |-> <<0, 0>>]]

NextFocus ==
    \/ \E l \in LayerIds : pending_layers = <<>> /\ new_layer_surface(l, None)
    \/ \E l \in LayerIds : map_layer(l)
    \/ space_loc["w1"] = None /\ move_state = None
       /\ map_window("w1", Some(<<0, 0>>))
    \/ fullscreen_request("w2", "o1")
    \/ \E at \in FocusProbes : pointer_motion_absolute("d1", at)
    \/ \E st \in {"Pressed", "Released"} : pointer_button("d1", "left", st)

SpecFocus == InitFocus /\ [][NextFocus]_vars

\* button events with and without a grab: a Top surface and a floating
\* window come onto one output, the pointer is put on one of two points
\* while nothing owns it, a popup takes and gives back the keyboard, and a
\* move or a resize of the window is started, released and finalized
NextGrabFocus ==
    \/ new_layer_surface("l2", None)
    \/ map_layer("l2")
    \/ space_loc["w1"] = None /\ move_state = None
       /\ map_window("w1", Some(<<0, 0>>))
    \/ \E at \in {<<3, 1>>, <<5, 3>>} :
          grab = NoGrab /\ pointer_motion_absolute("d1", at)
    \/ \E st \in {"Pressed", "Released"} : pointer_button("d1", "left", st)
    \/ \E on \in BOOLEAN : keyboard_set_grab(on)
    \/ IsSome(space_loc["w1"]) /\ move_request("w1")
    \/ IsSome(space_loc["w1"]) /\ resize_grab_start("w1", {"RIGHT"}, TRUE)
    \/ drop_move

SpecGrabFocus == InitFocus /\ [][NextGrabFocus]_vars

\* the pointer at the edges of two outputs side by side: relative motions
\* of half a unit along one axis, and diagonal ones that may leave every
\* output across a corner
EdgeDeltas == {<<1, 0>>, <<-1, 0>>, <<0, 1>>, <<0, -1>>, <<-4, -2>>, <<4, 2>>}

NextEdge == \E delta \in EdgeDeltas : pointer_motion("d1", delta)

SpecEdge == InitHit /\ [][NextEdge]_vars

\* which output is the active one: the pointer crosses two outputs side by
\* side by relative motions, is put on a point of the active output, and
\* buttons and the wheel are used
ActiveDeltas == {<<3, 0>>, <<-3, 0>>, <<0, 2>>, <<0, -2>>, <<-4, -2>>, <<4, 2>>}

NextActive ==
    \/ \E delta \in ActiveDeltas : pointer_motion_by("d1", delta)
    \/ \E at \in PointerProbes : pointer_motion_absolute("d1", at)
    \/ \E st \in {"Pressed", "Released"} : pointer_button("d1", "left", st)
    \/ pointer_axis("d1")

SpecActive == InitHit /\ [][NextActive]_vars

\* outputs unplugged under the pointer: the pointer goes from one output to
\* the other, outputs are removed and attached again, and a window is
\* mapped and unmapped
NextUnplug ==
    \/ \E o \in Outputs : remove_output(o)
    \/ \E o \in Outputs : add_output(o)
    \/ \E delta \in OutputJumps : pointer_motion("d1", delta)
    \/ map_window("w1", None)
    \/ unmap_window("w1")

SpecUnplug == InitHit /\ [][NextUnplug]_vars

\* windows mapped before and after the backend has outputs: outputs are
\* attached and removed, and two windows are mapped and unmapped
NextEarly ==
    \/ \E o \in Outputs : add_output(o)
    \/ \E o \in Outputs : remove_output(o)
    \/ \E w \in Windows : map_window(w, None)
    \/ \E w \in Windows : unmap_window(w)

SpecEarly == Init /\ [][NextEarly]_vars

\* where a window is mapped: on two outputs a window is mapped with and
\* without an explicit position, unmapped, and dragged from one place to
\* another
NextWhere ==
    \/ \E position \in {None, Some(<<1, 1>>)} : map_window("w1", position)
    \/ unmap_window("w1")
    \/ \E delta \in OutputJumps : pointer_motion("d1", delta)
    \/ IsSome(space_loc["w1"]) /\ move_request("w1")
    \/ \E st \in {"Pressed", "Released"} : pointer_button("d1", "left", st)
    \/ drop_move

SpecWhere == InitHit /\ [][NextWhere]_vars

\* requests on a fullscreen window: a window is mapped and unmapped, goes
\* fullscreen and back when the other window has not taken the output, and
\* asks to be maximized, resized and moved; the policy engine takes the
\* messages
NextGuard ==
    \/ space_loc["w1"] = None /\ map_window("w1", Some(<<0, 0>>))
    \/ unmap_window("w1")
    \/ \E w \in Windows : fullscreen_request(w, "o1")
    \/ \E w \in Windows : unfullscreen_request(w)
    \/ maximize_request("w1", "o1")
    \/ resize_request("w1", {"RIGHT"})
    \/ move_request("w1")
    \/ runtime_recv

SpecGuard == InitFocus /\ [][NextGuard]_vars

\* a maximized window dragged away: on two outputs a window is mapped,
\* maximized through the policy engine on either output, and moved with
\* the pointer, which goes from output to output; the window is mapped
\* again after the move has taken it out of the space
NextDrag ==
    \/ space_loc["w1"] = None /\ map_window("w1", None)
    \/ \E o \in Outputs : runtime_sender = <<>> /\ maximize_request("w1", o)
    \/ engine_maximize
    \/ \E size \in CommitSizes("w1") : client_commit("w1", size)
    \/ \E delta \in OutputJumps : pointer_motion("d1", delta)
    \/ IsSome(space_loc["w1"]) /\ move_request("w1")

SpecDrag == InitHit /\ [][NextDrag]_vars

\* -------------------------------------------------------------- properties
\* C1: no window occupies the fullscreen slots of two different outputs.
C1_OneSlotPerWindow ==
    \A w \in Windows : Cardinality({o \in Outputs : fullscreen[o] = Some(w)}) <= 1

\* C2: fullscreen_request(W2, O) on an output O whose slot holds another
\* window W1 changes nothing: the slots are as before, the pending state of
\* W2 (flags and size) is as before, and no configure is sent.
C2_SecondRequestIgnored ==
    [][\A w \in Windows, o \in Outputs :
         (/\ op' = <<"fullscreen_request", w, o>>
          /\ IsSome(fullscreen[o])
          /\ fullscreen[o] # Some(w))
         => (/\ fullscreen' = fullscreen
             /\ pending'[w] = pending[w]
             /\ configured' = <<>>
             /\ sent' = <<>>)]_vars

\* a second request for an occupied output has just been handled
C2_Witness ==
    /\ op[1] = "fullscreen_request"
    /\ IsSome(fullscreen[op[3]])
    /\ fullscreen[op[3]] # Some(op[2])
    /\ "Fullscreen" \notin pending[op[2]].states

\* C7: once refresh has run, no fullscreen slot is keyed by the name of an
\* output that is no longer attached to the shell.
C7_RefreshDropsRemovedOutputs ==
    op[1] = "refresh" =>
        \A o \in Outputs : IsSome(fullscreen[o]) => o \in Range(outputs)

\* the capabilities of the seat by the history of device events: the union,
\* over the devices added and not removed since, of what each reports,
\* intersected with {Keyboard, Pointer}
SeatCaps ==
    UNION {reported[d] \cap {"Keyboard", "Pointer"} : d \in registered}

\* C8: the capabilities held across the entries of the registry are the union
\* of the supported capabilities of the devices currently registered.
C8_RegistryIsUnion == Held(devices) = SeatCaps

\* a device went while another one is still registered with a capability
C8_Witness ==
    /\ op[1] = "remove_device"
    /\ Cardinality(registered) >= 1
    /\ Held(devices) # {}
    /\ \E d \in DeviceIds : d \notin registered /\ reported[d] # {}

\* C9: add_device / remove_device report a capability as gained exactly when
\* the seat had no device with it before the call and has one after, as lost
\* exactly when it had one before and has none after; per capability the
\* reports alternate, starting with gained.
C9_DiffsAreTransitions ==
    [][op'[1] \in {"add_device", "remove_device"} =>
         \A c \in Capabilities :
            /\ c \in returned'.gained <=> (c \notin SeatCaps /\ c \in SeatCaps')
            /\ c \in returned'.lost <=> (c \in SeatCaps /\ c \notin SeatCaps')
            /\ c \in returned'.gained => last_report[c] # "gained"
            /\ c \in returned'.lost => last_report[c] = "gained"]_vars

\* a second device with a capability the seat already has was added, and
\* nothing was reported
C9_Witness ==
    /\ op[1] = "add_device"
    /\ returned.gained = {}
    /\ Cardinality({d \in registered : "Keyboard" \in reported[d]}) >= 2

\* C4: unmap_window of a non-maximized window mapped at p with size s,
\* followed by map_window with no explicit position, leaves the window mapped
\* at p and proposes no size other than s to the client.
C4_UnmapRemapRestores ==
    [][\A w \in Windows :
         (/\ op[1] = "unmap_window" /\ op[2] = w /\ IsSome(op[3])
          /\ "Maximized" \notin pending[w].states
          /\ op' = <<"map_window", w, None>>
          /\ ~crashed')
         => /\ space_loc'[w] = op[3]
            /\ configured'[1].size \in {None, Some(geometry[w].size)}]_vars

\* C5: the persisted last-geometry of a window is never overwritten with its
\* maximized dimensions: no step taken while the window shows maximized
\* stores the size it then has.
C5_NeverPersistsMaximized ==
    [][\A w \in Windows :
         (/\ "Maximized" \in current[w]
          /\ last_geometry'[w] # last_geometry[w])
         => Get(last_geometry'[w]).size # geometry[w].size]_vars

\* the output slots a window holds
SlotsOf(w) == {o \in Outputs : fullscreen[o] = Some(w)}

\* C6: each window is in exactly one of unmapped, mapped in the floating
\* layout, fullscreen for one output; a window being move-dragged is unmapped.
C6_ExactlyOnePlace ==
    \A w \in Windows :
        /\ Cardinality(SlotsOf(w)) <= 1
        /\ SlotsOf(w) # {} => space_loc[w] = None
        /\ (IsSome(move_state) /\ Get(move_state).window = w)
              => space_loc[w] = None /\ SlotsOf(w) = {}

\* C3: when the last pressed button of a move grab on a live window started
\* with the window at W0 and the pointer at P0 is released with the pointer at
\* P1, the finalize maps the window at W0 + (P1 - P0) rounded, whatever
\* events ran between the release and the finalize.
C3_DropsAtReleasePoint ==
    [][(/\ op'[1] = "drop_move"
        /\ IsSome(move_state)
        /\ alive[Get(move_state).window]
        /\ ~crashed')
       => space_loc'[Get(move_state).window] =
             Some(DropLocation(Get(move_state), Head(idle).released_at))]_vars

\* the input region of a mapped layer surface of output o holds the global
\* pointer location
SurfaceHolds(o, l, hp) ==
    ContainsF([loc  |-> Add(Add(OutputGeometry(o).loc, l.geo.loc), l.region.loc),
               size |-> l.region.size], hp)

\* C10: once a motion event is processed on an output with a live fullscreen
\* window, an Overlay layer surface under the pointer is what surface_under
\* returned, placed at its global location, and no floating window is ever
\* returned.
C10_OverlayAboveFullscreen ==
    (op[1] \in {"pointer_motion", "pointer_motion_absolute"} /\ ~crashed) =>
        LET o  == active_output.output
            fs == get_fullscreen(o)
        IN  IsSome(fs) =>
              /\ \A i \in DOMAIN layer_map[o] :
                    LET l == layer_map[o][i]
                    IN  (l.layer = "Overlay" /\ SurfaceHolds(o, l, ptr)) =>
                           pending_focus =
                              Some([surface |-> l.id,
                                    loc |-> Add(OutputGeometry(o).loc, l.geo.loc)])
              /\ IsSome(pending_focus) =>
                    Get(pending_focus).surface \notin Windows \ {Get(fs)}

\* the pointer rests on output o2 over an Overlay surface, the fullscreen
\* window of o2 and a floating window at once, and the Overlay surface is hit
C10_Witness ==
    /\ op[1] = "pointer_motion_absolute"
    /\ active = Some("o2")
    /\ fullscreen["o2"] = Some("w2") /\ alive["w2"]
    /\ IsSome(WindowSurfaceUnder("w2", SubF(ptr, OutputGeometry("o2").loc)))
    /\ IsSome(space_loc["w1"])
    /\ IsSome(SpaceSurfaceUnder(space_relative_output_geometry(ptr, "o2")))
    /\ \E i \in DOMAIN layer_map["o2"] :
          /\ layer_map["o2"][i].layer = "Overlay"
          /\ SurfaceHolds("o2", layer_map["o2"][i], ptr)
    /\ IsSome(pending_focus) /\ Get(pending_focus).surface = "l1"

\* the rectangle of the non-exclusive zone of an output in the coordinates of
\* the space, with a window of the given size centered in it
CenteredIn(o, size) ==
    LET zone == NonExclusiveZone(o)
    IN  Add(Add(OutputGeometry(o).loc, zone.loc),
            <<(zone.size[1] - size[1]) \div 2, (zone.size[2] - size[2]) \div 2>>)

\* the size limits of a window leave room for 2/3 of the zone of the output
LimitsAllowTwoThirds(w, o) ==
    \A i \in {1, 2} :
        /\ attrs[w].max_size[i] = 0
              \/ attrs[w].max_size[i] >= TwoThirds(NonExclusiveZone(o).size[i])
        /\ attrs[w].min_size[i] = 0
              \/ attrs[w].min_size[i] <= TwoThirds(NonExclusiveZone(o).size[i])

\* C11: map_window with no explicit position of a window without persisted
\* geometry, larger than 2/3 of the non-exclusive zone on both axes and with
\* limits that allow 2/3 of the zone, proposes (floor(W/3)*2, floor(H/3)*2)
\* and places the window centered in the non-exclusive rectangle.
C11_ClampedAndCentered ==
    [][\A w \in Windows :
         (/\ op' = <<"map_window", w, None>>
          /\ ~crashed'
          /\ last_geometry[w] = None
          /\ IsSome(output_from_seat.output)
          /\ LET o == Get(output_from_seat.output)
             IN  /\ geometry[w].size[1] > TwoThirds(NonExclusiveZone(o).size[1])
                 /\ geometry[w].size[2] > TwoThirds(NonExclusiveZone(o).size[2])
                 /\ LimitsAllowTwoThirds(w, o))
         => LET o  == Get(output_from_seat.output)
                tt == <<TwoThirds(NonExclusiveZone(o).size[1]),
                        TwoThirds(NonExclusiveZone(o).size[2])>>
            IN  /\ configured'[1].size = Some(tt)
                /\ space_loc'[w] = Some(CenteredIn(o, tt))]_vars

C14_ReleaseOutsideResizingAborts ==
    [][(/\ IsSome(grab) /\ Get(grab).kind = "resize"
        /\ op'[1] = "pointer_button"
        /\ pressed # {} /\ pressed' = {}
        /\ alive[Get(grab).window]
        /\ resize_state[Get(grab).window].variant # "Resizing")
       => /\ crashed'
          /\ resize_state' = resize_state]_vars

\* a second grab on a window left in WaitingForFinalAck was released, and
\* the process aborted
C14_Witness ==
    /\ crashed
    /\ op[1] = "pointer_button" /\ op[2] = "left" /\ op[3] = "Released"
    /\ alive["w1"]
    /\ resize_state["w1"].variant = "WaitingForFinalAck"

\* C13: a window whose client has gone never makes the process abort: a
\* motion event or the release of the last button ends a grab on it, the
\* move finalize only clears the seat's move state, unmap_window unmaps it,
\* refresh frees the slot it holds, and no step that aborts is one on a
\* dead window.
C13_DeadWindowNeverAborts ==
    [][/\ (IsSome(grab) /\ Get(grab).kind \in {"move", "resize"}
           /\ ~alive[Get(grab).window]
           /\ \/ op'[1] = "pointer_motion"
              \/ op'[1] = "pointer_button" /\ pressed' = {})
          => ~crashed' /\ grab' = NoGrab
       /\ (op'[1] = "drop_move" /\ IsSome(move_state)
           /\ ~alive[Get(move_state).window])
          => /\ ~crashed' /\ move_state' = None
             /\ space_loc' = space_loc /\ configured' = <<>>
       /\ (op'[1] = "unmap_window" /\ ~alive[op'[2]])
          => ~crashed' /\ space_loc'[op'[2]] = None /\ op'[2] \notin windows'
       /\ op'[1] = "refresh"
          => /\ ~crashed'
             /\ \A o \in Outputs :
                   IsSome(fullscreen'[o]) => alive[Get(fullscreen'[o])]
       /\ (~crashed /\ crashed')
          => \/ op'[1] = "move_request" /\ alive[op'[2]]
             \/ /\ op'[1] = "pointer_button"
                /\ IsSome(grab) /\ alive[Get(grab).window]]_vars

\* the last button of a resize grab on a window without its client was
\* released: the grab is gone and the process runs on
C13_Witness ==
    /\ op[1] = "pointer_button" /\ op[2] = "left" /\ op[3] = "Released"
    /\ ~alive["w1"]
    /\ grab = NoGrab
    /\ resize_state["w1"].variant = "absent"
    /\ "Resizing" \in pending["w1"].states
    /\ ~crashed

\* C15: maximize_request, resize_request and unmaximize_request on a window
\* that is not fullscreen change no window or workspace state (no configure,
\* no map or unmap, no grab, the fullscreen slots stay) and append exactly
\* one message of the matching kind at the end of the channel, whatever is
\* still waiting on it; the policy engine takes the messages off the front,
\* so it receives them in the order of the requests.
C15_RequestsAreQueuedInOrder ==
    [][/\ (op'[1] \in {"maximize_request", "resize_request", "unmaximize_request"}
           /\ ~IsFullscreen(fullscreen, op'[2]))
          => /\ Len(sent') = 1
             /\ sent'[1].kind = (CASE op'[1] = "maximize_request" -> "MaximizeRequest"
                                   [] op'[1] = "resize_request" -> "ResizeRequest"
                                   [] OTHER -> "UnmaximizeRequest")
             /\ sent'[1].window = op'[2]
             /\ runtime_sender' = runtime_sender \o sent'
             /\ configured' = <<>>
             /\ UNCHANGED <<pending, current, space_loc, space_stack, windows,
                            pending_windows, last_geometry, resize_state,
                            fullscreen, grab, move_state, idle, crashed>>
       /\ op'[1] = "runtime_recv"
          => /\ Len(runtime_sender) > 0
             /\ \A i \in 1..Len(runtime_sender') :
                   runtime_sender'[i] = runtime_sender[i + 1]]_vars

\* a resize request was queued behind a maximize request that the policy
\* engine has not taken yet
C15_Witness ==
    /\ op = <<"resize_request", "w2">>
    /\ Len(runtime_sender) = 2
    /\ runtime_sender[1].kind = "MaximizeRequest"
    /\ runtime_sender[2].kind = "ResizeRequest"
    /\ runtime_sender[2].window = "w2"
    /\ fullscreen["o1"] = None

\* the live windows a move request took out of the layout and no finalize
\* has mapped again
AwaitingFinalize ==
    {w \in Windows : alive[w] /\ space_loc[w] = None /\ IsSome(last_geometry[w])}

\* C16: a seat has at most one outstanding move grab: at most one window is
\* unmapped and awaits the move finalize, also when a move request arrives
\* between the release of a grab and its finalize.
C16_OneOutstandingMove == Cardinality(AwaitingFinalize) <= 1

\* C17: the finalize never runs inside the dispatch of the event that ends
\* a move grab: that event releases the pointer grab and queues one idle
\* task, maps nothing, proposes no size and moves no focus, and no pointer
\* event at all touches the seat's move state or the mapping of a window,
\* so both stay as they are until the idle task runs as a step of its own.
C17_FinalizeIsDeferred ==
    [][/\ (IsSome(grab) /\ Get(grab).kind = "move" /\ grab' = NoGrab)
          => /\ op'[1] \in {"pointer_button", "pointer_motion"}
             /\ Len(idle') = Len(idle) + 1
             /\ SubSeq(idle', 1, Len(idle)) = idle
             /\ configured' = <<>>
             /\ focus' = focus
       /\ op'[1] \in {"pointer_button", "pointer_motion"}
          => /\ move_state' = move_state
             /\ space_loc' = space_loc
             /\ space_stack' = space_stack
             /\ windows' = windows
       /\ (move_state # None /\ move_state' = None) => op'[1] = "drop_move"]_vars

\* the last button went up: the grab is released, its finalize is queued,
\* and the window is still out of the layout with the move state set
C17_Witness ==
    /\ op[1] = "pointer_button" /\ op[2] = "left" /\ op[3] = "Released"
    /\ grab = NoGrab
    /\ Len(idle) = 1
    /\ move_state # None /\ Get(move_state).window = "w1"
    /\ space_loc["w1"] = None
    /\ alive["w1"]

\* C18: with the idle tasks scheduled fairly, every move grab that has ended
\* is finalized: a live window that a move request took out of the layout
\* and that the pointer no longer drags is mapped again in the end.
C18_EndedGrabIsFinalized ==
    \A w \in Windows :
        (/\ w \in AwaitingFinalize
         /\ ~(IsSome(grab) /\ Get(grab).kind = "move" /\ Get(grab).window = w))
        ~> (IsSome(space_loc[w]) \/ ~alive[w])

\* C19: a move grab leaves the Active state only on a button event after
\* which no button is pressed, or on a motion event that finds the window
\* dead, and then its finalize is queued; the release of one of two held
\* buttons, the press of a further button and an axis event keep the grab
\* and queue nothing.
C19_GrabEndsOnLastReleaseOrDeath ==
    [][(IsSome(grab) /\ Get(grab).kind = "move")
       => /\ grab' # grab
             => /\ grab' = NoGrab
                /\ Len(idle') = Len(idle) + 1
                /\ \/ /\ op'[1] = "pointer_button" /\ op'[3] = "Released"
                      /\ pressed \ {op'[2]} = {}
                   \/ /\ op'[1] = "pointer_motion"
                      /\ ~alive[Get(grab).window]
          /\ (\/ op'[1] = "pointer_axis"
              \/ /\ op'[1] = "pointer_button"
                 /\ op'[3] = "Pressed" \/ pressed \ {op'[2]} # {})
             => grab' = grab /\ idle' = idle /\ ~crashed']_vars

\* one of the two buttons held during a move grab went up and the window
\* is still being dragged
C19_Witness ==
    /\ op[1] = "pointer_button" /\ op[2] = "right" /\ op[3] = "Released"
    /\ pressed = {"left"}
    /\ IsSome(grab) /\ Get(grab).kind = "move"
    /\ idle = <<>>
    /\ move_state # None

\* C20: when the grabbed window is dead as the deferred finalize runs, the
\* finalize only clears the seat's move state: the window is not mapped
\* into the layout again, no size is proposed to it and the keyboard focus
\* stays where it was.
C20_DeadWindowFinalizeOnlyClears ==
    [][(/\ op'[1] = "drop_move"
        /\ IsSome(move_state)
        /\ ~alive[Get(move_state).window])
       => /\ move_state' = None
          /\ space_loc' = space_loc /\ space_stack' = space_stack
          /\ windows' = windows /\ pending_windows' = pending_windows
          /\ pending' = pending /\ configured' = <<>>
          /\ focus' = focus
          /\ ~crashed']_vars

\* the finalize ran for a window whose client went during the drag: the
\* move state is cleared and the window is still out of the space
C20_Witness ==
    /\ op = <<"drop_move">>
    /\ ~alive["w1"]
    /\ move_state = None
    /\ space_loc["w1"] = None
    /\ last_geometry["w1"] # None
    /\ "w1" \notin windows
    /\ focus = None

\* C21: when the button event of a resize grab on a live window in the
\* sub-state Resizing(data) leaves no button pressed, the grab is unset, one
\* size proposal with the last negotiated size and without the resizing flag
\* is sent, and the sub-state becomes WaitingForFinalAck(data, serial of the
\* event); a button event that leaves a button pressed changes none of these.
C21_ReleaseEndsResize ==
    [][(IsSome(grab) /\ Get(grab).kind = "resize" /\ op'[1] = "pointer_button")
       => LET w == Get(grab).window
          IN  /\ (pressed' = {} /\ alive[w] /\ resize_state[w].variant = "Resizing")
                 => /\ grab' = NoGrab
                    /\ configured' =
                         <<Configure(w, [states |-> pending[w].states \ {"Resizing"},
                                         size |-> Some(Get(grab).last_window_size)])>>
                    /\ pending'[w] = [states |-> configured'[1].states,
                                       size   |-> configured'[1].size]
                    /\ resize_state'[w] =
                         [variant |-> "WaitingForFinalAck",
                          data    |-> resize_state[w].data,
                          serial  |-> Some(op'[4])]
                    /\ ~crashed'
              /\ pressed' # {}
                 => /\ grab' = grab
                    /\ configured' = <<>>
                    /\ pending' = pending
                    /\ resize_state' = resize_state
                    /\ ~crashed']_vars

\* the last of two buttons went up during a resize by the top-left corner:
\* the window waits for the ack of the final proposal, under the serial of
\* that release
C21_Witness ==
    /\ op = <<"pointer_button", "right", "Released", 2>>
    /\ grab = NoGrab
    /\ alive["w1"] /\ ~crashed
    /\ resize_state["w1"].variant = "WaitingForFinalAck"
    /\ resize_state["w1"].serial = Some(2)
    /\ Get(resize_state["w1"].data).edges = {"TOP", "LEFT"}
    /\ Len(configured) = 1
    /\ "Resizing" \notin pending["w1"].states
    /\ pending["w1"].size = Some(<<1, 1>>)

\* C22: a motion event or a release of the last button that finds the
\* window of a resize grab dead unsets the grab and does nothing else: no
\* size proposal is sent, the pending size and the resize sub-state of the
\* window stay, and the process runs on.
C22_DeadWindowEndsResizeQuietly ==
    [][(/\ IsSome(grab) /\ Get(grab).kind = "resize"
        /\ ~alive[Get(grab).window]
        /\ \/ op'[1] = "pointer_motion"
           \/ op'[1] = "pointer_button" /\ pressed' = {})
       => /\ grab' = NoGrab
          /\ configured' = <<>>
          /\ pending' = pending
          /\ resize_state' = resize_state
          /\ UNCHANGED <<space_loc, space_stack, windows, idle, move_state>>
          /\ ~crashed']_vars

\* the pointer moved after the client of a window under resize had gone:
\* the grab is unset, and the size negotiated before and the sub-state
\* Resizing are as the client left them
C22_Witness ==
    /\ op = <<"pointer_motion">>
    /\ ~alive["w1"]
    /\ grab = NoGrab
    /\ configured = <<>>
    /\ resize_state["w1"].variant = "Resizing"
    /\ "Resizing" \in pending["w1"].states
    /\ pending["w1"].size = Some(<<3, 2>>)
    /\ ptr = <<0, 0>>
    /\ ~crashed

\* the size proposal a motion event of a resize grab has just sent
Proposed == Get(configured[1].size)

ProposalSent ==
    /\ op = <<"pointer_motion">>
    /\ IsSome(grab) /\ Get(grab).kind = "resize"
    /\ configured # <<>>

\* C23: every size proposal sent during a resize grab is at least
\* max(advertised min, 1) wide and high, for every pair of advertised limits
\* and every pointer travel.
C23_ProposalAtLeastMin ==
    ProposalSent
    => \A i \in {1, 2} :
          Proposed[i] >= Max(attrs[configured[1].window].min_size[i], 1)

\* twice the unclamped size of one axis: the initial size plus the pointer
\* travel since the grab started, the travel negated for the edge `flip`
TwiceUnclamped(i, grow, flip) ==
    LET g == Get(grab)
        d == ptr[i] - g.start[i]
    IN  IF flip \in g.edges THEN 2 * g.initial_window_size[i] - d
        ELSE IF grow \in g.edges THEN 2 * g.initial_window_size[i] + d
        ELSE 2 * g.initial_window_size[i]

\* C24: in a resize grab the unclamped width is the initial width plus the
\* pointer travel dx for RIGHT and minus dx for LEFT, the unclamped height
\* the initial height plus dy for BOTTOM and minus dy for TOP, always from
\* the initial size: with no limits advertised, every proposal of at least
\* 1 is that sum cut to whole units.
C24_DeltaFromInitialSize ==
    (/\ ProposalSent
     /\ attrs[configured[1].window] = [min_size |-> <<0, 0>>, max_size |-> <<0, 0>>])
    => /\ Get(grab).initial_window_size = geometry[configured[1].window].size
       /\ LET e == <<TwiceUnclamped(1, "RIGHT", "LEFT"),
                     TwiceUnclamped(2, "BOTTOM", "TOP")>>
          IN  \A i \in {1, 2} :
                 IF e[i] >= 2
                 THEN 2 * Proposed[i] <= e[i] /\ e[i] < 2 * Proposed[i] + 2
                 ELSE Proposed[i] = 1

\* a grab by the top-left corner started at (3,1) and the pointer went back
\* to the origin: the 2x2 window is proposed 5 wide and 3 high
C24_Witness ==
    /\ ProposalSent
    /\ attrs["w1"] = [min_size |-> <<0, 0>>, max_size |-> <<0, 0>>]
    /\ Get(grab).edges = {"TOP", "LEFT"}
    /\ Get(grab).start = <<6, 2>>
    /\ ptr = <<0, 0>>
    /\ Get(grab).initial_window_size = <<2, 2>>
    /\ Proposed = <<5, 3>>

\* C25: in a resize grab whose edges hold neither TOP nor BOTTOM every
\* proposal keeps the initial height, and with neither LEFT nor RIGHT every
\* proposal keeps the initial width, whatever limits the window advertises.
C25_InactiveAxisKeepsInitial ==
    ProposalSent
    => LET g == Get(grab)
       IN  /\ g.edges \cap {"TOP", "BOTTOM"} = {}
              => Proposed[2] = g.initial_window_size[2]
           /\ g.edges \cap {"LEFT", "RIGHT"} = {}
              => Proposed[1] = g.initial_window_size[1]

\* the topmost layer surface of a band of output o that can take the
\* keyboard focus and has a surface at the global point
FocusableLayerAt(o, band, hp) ==
    LET ls  == layer_map[o]
        hit == {i \in DOMAIN ls : /\ ls[i].layer = band
                                  /\ ls[i].keyboard
                                  /\ SurfaceHolds(o, ls[i], hp)}
    IN  IF hit = {} THEN None
        ELSE Some(ls[CHOOSE i \in hit : \A j \in hit : j <= i].id)

\* the topmost floating window with a surface at the point
WindowAt(hp) ==
    IF IsSome(SpaceSurfaceUnder(hp)) THEN Some(Get(SpaceSurfaceUnder(hp)).surface)
    ELSE None

\* a button press reaches the focus traversal: no grab owns the pointer or
\* the keyboard and the handler runs to its end
FocusPress ==
    /\ op'[1] = "pointer_button" /\ op'[3] = "Pressed"
    /\ grab = NoGrab /\ ~keyboard_grab
    /\ ~crashed'

\* C26: without a fullscreen window the focus traversal goes on past layer
\* surfaces that cannot take the keyboard focus: a press gives the focus to
\* the first of a focus-capable Overlay surface, a focus-capable Top
\* surface, the topmost floating window, a focus-capable Bottom surface and
\* a focus-capable Background surface that lies under the pointer.
C26_FocusSkipsUnfocusableLayers ==
    [][(FocusPress /\ get_fullscreen(active_output.output) = None)
       => LET o == active_output.output
          IN  focus' =
                OrElse(FocusableLayerAt(o, "Overlay", ptr),
                OrElse(FocusableLayerAt(o, "Top", ptr),
                OrElse(WindowAt(space_relative_output_geometry(ptr, o)),
                OrElse(FocusableLayerAt(o, "Bottom", ptr),
                       FocusableLayerAt(o, "Background", ptr)))))]_vars

\* C27: on an output with a fullscreen window the focus traversal looks at
\* the Overlay band only: a press gives the focus to a focus-capable Overlay
\* surface under the pointer, and whenever there is none, to the fullscreen
\* window under the pointer, never to a Top surface.
C27_FullscreenFocusOverlayOnly ==
    [][(FocusPress /\ get_fullscreen(active_output.output) # None)
       => LET o  == active_output.output
              fs == Get(get_fullscreen(o))
          IN  focus' =
                OrElse(FocusableLayerAt(o, "Overlay", ptr),
                       IF IsSome(WindowSurfaceUnder(fs, SubF(ptr, OutputGeometry(o).loc)))
                       THEN Some(fs) ELSE None)]_vars

\* C28: a button event moves the keyboard focus only when it is a press and
\* neither the pointer nor the keyboard of the seat is grabbed; while a move
\* or a resize grab owns the pointer no button event moves it; and press or
\* release, grabbed or not, the event is handed on once: the set of pressed
\* buttons the pointer keeps is the one before with this button put in or
\* taken out.
C28_FocusOnlyOnUngrabbedPress ==
    [][op'[1] = "pointer_button"
       => /\ focus' # focus
             => op'[3] = "Pressed" /\ grab = NoGrab /\ ~keyboard_grab
          /\ (IsSome(grab) /\ Get(grab).kind \in {"move", "resize"})
             => focus' = focus
          /\ pressed' = PressedAfter(op'[2], op'[3])
          /\ pressed' # pressed]_vars

\* a button was pressed over the floating window while a resize grab owned
\* the pointer: the press reached the pointer and the focus is not on the
\* window
C28_Witness ==
    /\ op[1] = "pointer_button" /\ op[3] = "Pressed"
    /\ IsSome(grab) /\ Get(grab).kind = "resize"
    /\ pressed = {"left"}
    /\ WindowAt(space_relative_output_geometry(ptr, "o1")) = Some("w1")
    /\ FocusableLayerAt("o1", "Top", ptr) = None
    /\ focus # Some("w1")
    /\ ~crashed

\* the topmost layer surface of a band of output o that has a surface at
\* the global point
LayerAt(o, band, hp) ==
    LET ls  == layer_map[o]
        hit == {i \in DOMAIN ls : ls[i].layer = band /\ SurfaceHolds(o, ls[i], hp)}
    IN  IF hit = {} THEN None
        ELSE Some(ls[CHOOSE i \in hit : \A j \in hit : j <= i].id)

\* the surface the pointer was found over
PointerTarget ==
    IF IsSome(pending_focus) THEN Some(Get(pending_focus).surface) ELSE None

\* C29: once a motion event is processed on an output without a fullscreen
\* window, the surface under the pointer is the first that the bands
\* Overlay, Top, floating windows (topmost first), Bottom, Background have
\* at the position, each band that has none there giving way to the next,
\* and there is no target only when no band has a surface there.
C29_PointerFallsThroughBands ==
    (/\ op[1] \in {"pointer_motion", "pointer_motion_absolute"}
     /\ ~crashed
     /\ get_fullscreen(active_output.output) = None)
    => LET o == active_output.output
       IN  PointerTarget =
             OrElse(LayerAt(o, "Overlay", ptr),
             OrElse(LayerAt(o, "Top", ptr),
             OrElse(WindowAt(space_relative_output_geometry(ptr, o)),
             OrElse(LayerAt(o, "Bottom", ptr), LayerAt(o, "Background", ptr)))))

\* C30: after every relative motion event the pointer lies within the
\* bounds of the active output, origin.x <= x <= origin.x + width and
\* origin.y <= y <= origin.y + height, wherever the output lies: a motion
\* that leaves every output is cut back, axis by axis, to the output that
\* was active before.
C30_PointerStaysOnActiveOutput ==
    (op[1] = "pointer_motion" /\ ~crashed)
    => LET geo == OutputGeometry(active_output.output)
       IN  \A i \in {1, 2} :
              /\ ToF64Axis(geo.loc[i]) <= ptr[i]
              /\ ptr[i] <= ToF64Axis(geo.loc[i] + geo.size[i])

\* the first output, in the order of Shell.outputs, whose geometry holds
\* the point
FirstOutputHolding(hp) ==
    LET hit == {i \in DOMAIN outputs : ContainsF(OutputGeometry(outputs[i]), hp)}
    IN  IF hit = {} THEN None
        ELSE Some(outputs[CHOOSE i \in hit : \A j \in hit : i <= j])

\* C31: after a relative motion event the active output of the seat is the
\* first output, in the order of the shell's outputs, whose geometry holds
\* the pointer position before the clamp, and the one before when no output
\* holds it; absolute motion, button and axis events leave it as it is.
C31_ActiveOutputFollowsPointer ==
    [][/\ (op'[1] = "pointer_motion" /\ ~crashed')
          => LET raw == Add(ptr, op'[2])
             IN  active_output'.output =
                    IF IsSome(FirstOutputHolding(raw)) THEN Get(FirstOutputHolding(raw))
                    ELSE active_output.output
       /\ op'[1] \in {"pointer_motion_absolute", "pointer_button", "pointer_axis"}
          => active' = active /\ active_output' = active_output]_vars

\* the pointer came from the second output back onto the first one, and
\* the first one is the active output again
C31_Witness ==
    /\ op[1] = "pointer_motion" /\ op[2] = <<-3, 0>>
    /\ active = Some("o1")
    /\ ContainsF(OutputGeometry("o1"), ptr)
    /\ ~ContainsF(OutputGeometry("o1"), Sub(ptr, op[2]))
    /\ ~crashed

\* C32: the active-output lookup of the seat never yields an output that
\* was removed from the shell: it yields an output attached to the shell,
\* the cached one if it still is, else the first one, and the output
\* map_window places a window on is an attached one as well.
C32_ActiveOutputIsAttached ==
    /\ ~active_output.panic => active_output.output \in Range(outputs)
    /\ (~output_from_seat.panic /\ IsSome(output_from_seat.output))
          => Get(output_from_seat.output) \in Range(outputs)

\* map_window ran to its end and mapped the window on the output of the seat
Mapped(w) ==
    /\ op'[1] = "map_window" /\ op'[2] = w
    /\ ~crashed'
    /\ w \in windows'

\* C33: map_window proposes a size exactly when the size it computed, the
\* persisted or natural size after the clamp, differs from the current size
\* of the window: when they differ the proposal carries the computed size,
\* when they are equal the size of the proposal is left as it was.
C33_ProposesSizeIffChanged ==
    [][\A w \in Windows :
         (Mapped(w) /\ ~output_from_seat.panic /\ IsSome(output_from_seat.output))
         => LET computed == PlacedSize(w, Get(output_from_seat.output))
            IN  /\ Len(configured') = 1
                /\ configured'[1].size = pending'[w].size
                /\ IF computed # geometry[w].size
                   THEN pending'[w].size = Some(computed)
                   ELSE pending'[w].size = pending[w].size]_vars

\* no output can be determined for the seat: the shell has no output, or
\* the seat has no cached active output and its pointer is over no output
NoOutputForSeat ==
    \/ outputs = <<>>
    \/ active = None /\ OutputUnder(ptr) = {}

\* C34: map_window called while no output can be determined appends the
\* window to the pending queue, neither maps nor tracks it, and the process
\* runs on.
C34_NoOutputQueuesWindow ==
    [][\A w \in Windows :
         (op'[1] = "map_window" /\ op'[2] = w /\ NoOutputForSeat)
         => /\ ~crashed'
            /\ pending_windows' = Append(pending_windows, w)
            /\ space_loc' = space_loc
            /\ windows' = windows
            /\ configured' = <<>>]_vars

\* C35: the size map_window places a window with is, on each axis by
\* itself, at most the non-exclusive size, at most the larger of 2/3 of the
\* non-exclusive size (floor(n / 3) * 2) and the advertised minimum, and
\* above a nonzero advertised maximum only when the minimum forces it, for
\* every natural or persisted size and every pair of limits.
C35_PlacedSizeWithinBounds ==
    [][\A w \in Windows :
         (Mapped(w) /\ ~output_from_seat.panic /\ IsSome(output_from_seat.output))
         => LET o    == Get(output_from_seat.output)
                zone == NonExclusiveZone(o).size
                W    == PlacedSize(w, o)
            IN  /\ configured'[1].size \in {pending[w].size, Some(W)}
                /\ \A i \in {1, 2} :
                      /\ W[i] <= zone[i]
                      /\ W[i] <= Max(TwoThirds(zone[i]), attrs[w].min_size[i])
                      /\ (attrs[w].max_size[i] # 0 /\ W[i] > attrs[w].max_size[i])
                            => W[i] = attrs[w].min_size[i]]_vars

\* a window of the given size at pos lies in the middle of the
\* non-exclusive rectangle of output o, to the half unit the integer
\* division may lose
Centered(o, size, pos) ==
    LET zone == NonExclusiveZone(o)
        org  == Add(OutputGeometry(o).loc, zone.loc)
    IN  \A i \in {1, 2} :
           LET off == 2 * pos[i] + size[i] - (2 * org[i] + zone.size[i])
           IN  -1 <= off /\ off <= 1

\* C36: map_window places the window at the position asked for when there
\* is one, else at the persisted position when there is one, else centered
\* in the non-exclusive rectangle of the output; the move finalize maps the
\* window at the position it asks for, whatever position is persisted.
C36_PositionPrecedence ==
    [][\A w \in Windows :
         /\ (Mapped(w) /\ ~output_from_seat.panic /\ IsSome(output_from_seat.output))
            => LET o == Get(output_from_seat.output)
               IN  /\ IsSome(space_loc'[w])
                   /\ IF IsSome(op'[3]) THEN space_loc'[w] = op'[3]
                      ELSE IF IsSome(last_geometry[w])
                      THEN space_loc'[w] = Some(Get(last_geometry[w]).loc)
                      ELSE Centered(o, PlacedSize(w, o), Get(space_loc'[w]))
         /\ (/\ op'[1] = "drop_move" /\ ~crashed'
             /\ IsSome(move_state) /\ Get(move_state).window = w /\ alive[w])
            => space_loc'[w] = Some(DropLocation(Get(move_state), ptr))]_vars

\* C37: unfullscreen_request on a window that holds a fullscreen slot
\* clears the Fullscreen flag, proposes no size, frees every slot that holds
\* the window and sends exactly one UnfullscreenRequest; on a window that
\* holds no slot it sends nothing and changes nothing; unmaximize_request on
\* a fullscreen window does what unfullscreen_request does and sends no
\* UnmaximizeRequest.
C37_UnfullscreenFreesSlots ==
    [][\A w \in Windows :
         /\ (/\ op' \in {<<"unfullscreen_request", w>>, <<"unmaximize_request", w>>}
             /\ IsFullscreen(fullscreen, w))
            => /\ pending'[w] = [states |-> pending[w].states \ {"Fullscreen"},
                                 size   |-> None]
               /\ \A v \in Windows \ {w} : pending'[v] = pending[v]
               /\ configured' = <<Configure(w, pending'[w])>>
               /\ \A o \in Outputs :
                     fullscreen'[o] = IF fullscreen[o] = Some(w) THEN None
                                      ELSE fullscreen[o]
               /\ sent' = <<Msg("UnfullscreenRequest", w)>>
               /\ runtime_sender' = Append(runtime_sender, sent'[1])
               /\ ~crashed'
         /\ (op' = <<"unfullscreen_request", w>> /\ ~IsFullscreen(fullscreen, w))
            => /\ sent' = <<>> /\ configured' = <<>>
               /\ UNCHANGED <<fullscreen, pending, runtime_sender, outputVars,
                              spaceVars, layoutVars, clientVars, seatVars, crashed>>]_vars

\* unmaximize_request came for a window that was fullscreen: its slots are
\* free, and the one message sent is an UnfullscreenRequest
C37_Witness ==
    /\ op = <<"unmaximize_request", "w1">>
    /\ sent = <<Msg("UnfullscreenRequest", "w1")>>
    /\ ~IsFullscreen(fullscreen, "w1")
    /\ fullscreen["o2"] = Some("w2")
    /\ pending["w1"] = [states |-> {}, size |-> None]
    /\ Len(configured) = 1
    /\ Len(runtime_sender) = 2

\* C38: maximize_request, resize_request and move_request on a window that
\* holds a fullscreen slot change nothing: no message goes to the policy
\* channel, no grab starts, the window is not unmapped, the move state of
\* the seat and the fullscreen slots stay, and the process runs on.
C38_FullscreenWindowIgnoresRequests ==
    [][\A w \in Windows :
         (/\ op'[1] \in {"maximize_request", "resize_request", "move_request"}
          /\ op'[2] = w
          /\ IsFullscreen(fullscreen, w))
         => /\ sent' = <<>> /\ configured' = <<>>
            /\ UNCHANGED <<runtime_sender, grab, move_state, fullscreen, pending,
                           spaceVars, layoutVars, outputVars, clientVars,
                           seatVars, crashed>>]_vars

\* a move grab starts on a window that shows maximized
MaximizedMoveStarts(w) ==
    /\ op' = <<"move_request", w>>
    /\ "Maximized" \in current[w]
    /\ move_state' # move_state
    /\ ~crashed'

\* C39: a move grab on a maximized window first clears the Maximized
\* state and proposes the persisted size, then unmaps the window, and
\* starts with the window at x = pointer_x - restored_width * (pointer_x /
\* output_width), y = pointer_y, so that the pointer lies horizontally
\* within the restored window, x <= pointer_x <= x + restored_width, on an
\* output at any origin.
C39_MaximizedMoveKeepsPointerInside ==
    [][\A w \in Windows :
         MaximizedMoveStarts(w)
         => /\ "Maximized" \notin pending'[w].states
            /\ pending'[w].size =
                  IF IsSome(last_geometry[w]) THEN Some(Get(last_geometry[w]).size)
                  ELSE None
            /\ configured' = <<Configure(w, pending'[w])>>
            /\ space_loc'[w] = None
            /\ IsSome(grab') /\ Get(grab').kind = "move"
            /\ Get(move_state').initial_window_location[2] = RoundAxis(ptr[2])
            /\ IsSome(pending'[w].size)
                  => LET x  == Get(move_state').initial_window_location[1]
                         rw == Get(pending'[w].size)[1]
                     IN  /\ ToF64Axis(x) - 1 <= ptr[1]
                         /\ ptr[1] <= ToF64Axis(x + rw) + 1]_vars

====
